---- MODULE Spec2Model ----
(***************************************************************************)
(* Account lifecycle and credential verification of template-back:        *)
(* the account store, the ephemeral (email) token store, the session      *)
(* gate (authenticate / authorize) and the request handlers built on      *)
(* them.  Every handler is cut at its database round trips (each `await`  *)
(* on prisma is one step), so concurrent requests interleave exactly      *)
(* where the event loop lets them.                                        *)
(***************************************************************************)
EXTENDS Integers, FiniteSets, Sequences, TLC

\* ------------------------------------------------------------------ bounds
\* The clock runs over 0..MaxTime.
MaxTime == 3
\* At most MaxReq requests are started in one behaviour.
MaxReq == 3

\* Concurrent request handlers (the event loop's in-flight requests).
Procs == {"p1", "p2"}

\* ------------------------------------------------------------- constants
NULL == "null"
\* A timestamp column holding SQL NULL.
NoTime == 0 - 1

\* Token lifetimes and the resend cooldown in clock units (24 h, 2 h, 5 min;
\* the order is what matters).
VERIFICATION_TOKEN_EXPIRY == 3
RESET_TOKEN_EXPIRY == 2
RESEND_VERIFICATION_COOLDOWN == 1

USER_ROLES == {"USER", "ADMIN", "SUPER_ADMIN"}
USER_STATUS == {"ACTIVE", "SUSPENDED", "DELETED"}
EMAIL_TOKEN_TYPES == {"VERIFICATION", "PASSWORD_RESET"}

\* Account ids of the database.
UserIds == {"u1", "a1", "s1"}
\* Raw ephemeral token strings a request may carry ("zz" is never issued).
RawTokens == {"tv", "tr", "zz"}
Passwords == {"pw1", "pw2"}
Reasons == {"policy violation"}

\* ----------------------------------------------------------------- state
VARIABLES
    users,      \* table users: id -> row
    tokens,     \* table email_tokens: raw token -> row
    now,        \* the clock (Date.now())
    pc,         \* per request handler: the await it is suspended at
    loc,        \* per request handler: its local variables
    resp,       \* per request handler: the last response it sent
    sessions,   \* session tokens (JWT) issued so far
    outbox,     \* notifications handed to EmailService
    nreq,       \* requests started so far
    consumed,   \* history: per raw token, how many calls returned isValid=true
    barred      \* history: accounts whose last completed suspend/softDelete
                \* has not been followed by a completed activate

vars == <<users, tokens, now, pc, loc, resp, sessions, outbox, nreq, consumed, barred>>

\* ------------------------------------------------------------- passwords
\* bcrypt.hash / bcrypt.compare: a digest is not the plaintext.
hashPassword(pw) == <<"bcrypt", pw>>
comparePassword(pw, digest) == digest = <<"bcrypt", pw>>

\* ---------------------------------------------------------------- emails
\* An email address as typed: its lower-case trimmed form, and whether the
\* typed text had upper-case letters or surrounding blanks.
Email(base, upper, pad) == [base |-> base, upper |-> upper, pad |-> pad]
normalizeEmail(e) == [e EXCEPT !.upper = FALSE, !.pad = FALSE]

\* ------------------------------------------------------------ local state
IdleLoc ==
    [op |-> NULL, token |-> NULL, type |-> NULL, userId |-> NULL,
     password |-> NULL, actor |-> NULL, actorRole |-> NULL, target |-> NULL,
     data |-> NULL, seen |-> NULL]

\* A body without data.token.
NoToken == [kind |-> "absent", userId |-> NULL, email |-> NULL, role |-> NULL]

\* A body without data.user.
NoView == [id |-> NULL]

\* A response, filed with the request it answers (op, req) and its number
\* among the responses sent to that client (n); token is the session token
\* of data.token and user the account view of data.user, when the body
\* carries one.
NoResp ==
    [n |-> 0, op |-> NULL, req |-> NULL, status |-> 0, message |-> NULL, error |-> NULL,
     token |-> NoToken, user |-> NoView]

\* { success: false, message, error } sent with res.status(code)
ErrorResponse(op, req, code, msg) ==
    [n |-> 0, op |-> op, req |-> req, status |-> code, message |-> msg, error |-> msg,
     token |-> NoToken, user |-> NoView]
\* { success: true, message } sent with res.status(code)
SuccessResponse(op, req, code, msg) ==
    [n |-> 0, op |-> op, req |-> req, status |-> code, message |-> msg, error |-> NULL,
     token |-> NoToken, user |-> NoView]

\* No response yet for the request now in flight.
Pending(p) == [NoResp EXCEPT !.n = resp[p].n]

\* The step sent a response to p.
Answered(p) == resp'[p].n # resp[p].n

Reply(p, r) ==
    /\ resp' = [resp EXCEPT ![p] = [r EXCEPT !.n = resp[p].n + 1]]
    /\ pc' = [pc EXCEPT ![p] = "idle"]
    /\ loc' = [loc EXCEPT ![p] = IdleLoc]

Begin(p) ==
    /\ pc[p] = "idle"
    /\ nreq < MaxReq
    /\ nreq' = nreq + 1

\* ------------------------------------------------------------- the clock
Tick ==
    /\ now < MaxTime
    /\ now' = now + 1
    /\ UNCHANGED <<users, tokens, pc, loc, resp, sessions, outbox, nreq, consumed, barred>>

\* --------------------------------------------------------- notifications
EMAIL_TYPES ==
    {"welcome", "email-verification", "password-reset", "password-changed",
     "account-suspended", "account-activated"}

\* EmailService.send...Email({to: user.email, ...}): one more notification
\* of that type addressed to the account.
Notify(box, type, id) == [box EXCEPT ![<<type, id>>] = @ + 1]

\* What EmailService.sendEmail does with a message: the transport takes it
\* and sendEmail returns true; the transport fails, sendEmail logs the
\* failure and returns false; or sendEmail throws (no transporter
\* 'Email service not initialized', or the email log itself fails).
SendOutcomes == {"sent", "failed", "threw"}

sendEmail(box, type, id, out) ==
    IF out = "sent" THEN Notify(box, type, id) ELSE box

\* ------------------------------------------------------------ token store
\* The lookup without its usedAt filter.
FindFirstToken_IgnoringUsedAt(raw, type) ==
    IF /\ raw \in DOMAIN tokens
       /\ tokens[raw].type = type
       /\ tokens[raw].expiresAt > now
    THEN raw
    ELSE NULL

\* The lookup without its type filter.
FindFirstToken_IgnoringType(raw, type) ==
    IF /\ raw \in DOMAIN tokens
       /\ tokens[raw].usedAt = NoTime
       /\ tokens[raw].expiresAt > now
    THEN raw
    ELSE NULL

\* prisma.emailToken.findFirst({where: {token, type, usedAt: null,
\* expiresAt: {gt: new Date()}}}): the matching row's key, or NULL.
FindFirstToken(raw, type) ==
    IF /\ raw \in DOMAIN tokens
       /\ tokens[raw].type = type
       /\ tokens[raw].usedAt = NoTime
       /\ tokens[raw].expiresAt > now
    THEN raw
    ELSE NULL

\* The purpose each consuming handler passes to verifyAndConsumeToken.
PurposeOf(op) == IF op = "verifyEmail" THEN "VERIFICATION" ELSE "PASSWORD_RESET"

InvalidTokenMessage(op) ==
    IF op = "verifyEmail" THEN "Invalid or expired verification token"
    ELSE "Invalid or expired reset token"

\* EmailRepository.verifyAndConsumeToken, first await: the findFirst.  No row:
\* it returns isValid=false and the handler answers 400.
ConsumeFind(p, op, raw, pw) ==
    /\ Begin(p)
    /\ LET found == FindFirstToken(raw, PurposeOf(op)) IN
       IF found = NULL
       THEN Reply(p, ErrorResponse(op, raw, 400, InvalidTokenMessage(op)))
       ELSE /\ pc' = [pc EXCEPT ![p] = "consume_update"]
            /\ loc' = [loc EXCEPT ![p] =
                   [IdleLoc EXCEPT !.op = op, !.token = found, !.password = pw,
                                   !.userId = tokens[found].userId]]
            /\ resp' = [resp EXCEPT ![p] = Pending(p)]
    /\ UNCHANGED <<users, tokens, now, sessions, outbox, consumed, barred>>

\* The consumption that reports isValid=true without marking the row.
ConsumeUpdate_NoMark(p) ==
    /\ pc[p] = "consume_update"
    /\ LET raw == loc[p].token IN
       IF raw \in DOMAIN tokens
       THEN /\ consumed' = [consumed EXCEPT ![raw] = @ + 1]
            /\ pc' = [pc EXCEPT ![p] =
                   IF loc[p].op = "verifyEmail" THEN "verify_load" ELSE "reset_load"]
            /\ UNCHANGED <<loc, resp>>
       ELSE /\ Reply(p, ErrorResponse(loc[p].op, raw, 400, InvalidTokenMessage(loc[p].op)))
            /\ UNCHANGED consumed
    /\ UNCHANGED <<users, tokens, now, sessions, outbox, nreq, barred>>

\* EmailRepository.verifyAndConsumeToken, second await: update({where: {id},
\* data: {usedAt: new Date()}}) and return isValid=true.  A row deleted in
\* between makes the update throw; the catch returns isValid=false.
ConsumeUpdate(p) ==
    /\ pc[p] = "consume_update"
    /\ LET raw == loc[p].token IN
       IF raw \in DOMAIN tokens
       THEN /\ tokens' = [tokens EXCEPT ![raw].usedAt = now]
            /\ consumed' = [consumed EXCEPT ![raw] = @ + 1]
            /\ pc' = [pc EXCEPT ![p] =
                   IF loc[p].op = "verifyEmail" THEN "verify_load" ELSE "reset_load"]
            /\ UNCHANGED <<loc, resp>>
       ELSE /\ Reply(p, ErrorResponse(loc[p].op, raw, 400, InvalidTokenMessage(loc[p].op)))
            /\ UNCHANGED <<tokens, consumed>>
    /\ UNCHANGED <<users, now, sessions, outbox, nreq, barred>>

\* The handler without the already-verified short cut.
VerifyEmailLoad_NoShortCut(p) ==
    /\ pc[p] = "verify_load"
    /\ LET id == loc[p].userId IN
       IF id \notin DOMAIN users
       THEN Reply(p, ErrorResponse("verifyEmail", loc[p].token, 404, "User not found"))
       ELSE /\ pc' = [pc EXCEPT ![p] = "verify_write"]
            /\ UNCHANGED <<loc, resp>>
    /\ UNCHANGED <<users, tokens, now, sessions, outbox, nreq, consumed, barred>>

\* verifyEmailHandler after the token: findById, then the already-verified
\* short cut.
VerifyEmailLoad(p) ==
    /\ pc[p] = "verify_load"
    /\ LET id == loc[p].userId IN
       IF id \notin DOMAIN users
       THEN Reply(p, ErrorResponse("verifyEmail", loc[p].token, 404, "User not found"))
       ELSE IF users[id].emailVerified
       THEN Reply(p, SuccessResponse("verifyEmail", loc[p].token, 200, "Email is already verified"))
       ELSE /\ pc' = [pc EXCEPT ![p] = "verify_write"]
            /\ UNCHANGED <<loc, resp>>
    /\ UNCHANGED <<users, tokens, now, sessions, outbox, nreq, consumed, barred>>

\* UserRepository.updateEmailVerification(id, true)
updateEmailVerification(table, id, verified) ==
    IF id \in DOMAIN table
    THEN [table EXCEPT ![id].emailVerified = verified,
                       ![id].emailVerifiedAt = IF verified THEN now ELSE NoTime]
    ELSE table

VerifyEmailWrite(p) ==
    /\ pc[p] = "verify_write"
    /\ users' = updateEmailVerification(users, loc[p].userId, TRUE)
    /\ Reply(p, SuccessResponse("verifyEmail", loc[p].token, 200, "Email verified successfully"))
    /\ UNCHANGED <<tokens, now, sessions, outbox, nreq, consumed, barred>>

\* resetPasswordHandler after the token: findById and the ACTIVE check.
ResetPasswordLoad(p) ==
    /\ pc[p] = "reset_load"
    /\ LET id == loc[p].userId IN
       IF id \notin DOMAIN users
       THEN Reply(p, ErrorResponse("resetPassword", loc[p].token, 404, "User not found"))
       ELSE IF users[id].status # "ACTIVE"
       THEN Reply(p, ErrorResponse("resetPassword", loc[p].token, 403, "Account is not active"))
       ELSE /\ pc' = [pc EXCEPT ![p] = "reset_write"]
            /\ UNCHANGED <<loc, resp>>
    /\ UNCHANGED <<users, tokens, now, sessions, outbox, nreq, consumed, barred>>

\* authRepository.updatePassword(id, newPassword): hash and persist.
updatePassword(table, id, pw) ==
    IF id \in DOMAIN table
    THEN [table EXCEPT ![id].password = hashPassword(pw)]
    ELSE table

\* The reset whose confirmation mail is awaited outside a try/catch: a
\* throw of EmailService reaches the handler's catch after the write.
ResetPasswordWrite_MailUncaught(p) ==
    /\ pc[p] = "reset_write"
    /\ users' = updatePassword(users, loc[p].userId, loc[p].password)
    /\ \E out \in SendOutcomes :
          /\ outbox' = sendEmail(outbox, "password-changed", loc[p].userId, out)
          /\ IF out = "threw"
             THEN Reply(p, ErrorResponse("resetPassword", loc[p].token, 500,
                                         "Email service not initialized"))
             ELSE Reply(p, SuccessResponse("resetPassword", loc[p].token, 200,
                                           "Password reset successfully"))
    /\ UNCHANGED <<tokens, now, sessions, nreq, consumed, barred>>

\* resetPasswordHandler: the write, the confirmation mail inside its own
\* try/catch (a failure is logged and dropped), 200.
ResetPasswordWrite(p) ==
    /\ pc[p] = "reset_write"
    /\ users' = updatePassword(users, loc[p].userId, loc[p].password)
    /\ \E out \in SendOutcomes :
          outbox' = sendEmail(outbox, "password-changed", loc[p].userId, out)
    /\ Reply(p, SuccessResponse("resetPassword", loc[p].token, 200, "Password reset successfully"))
    /\ UNCHANGED <<tokens, now, sessions, nreq, consumed, barred>>

\* ---------------------------------------------------------- session gate
ADMIN_ROLES == {"ADMIN", "SUPER_ADMIN"}

\* generateToken({userId, email, role}): a signed, unexpired session token.
generateToken(id, email, role) ==
    [kind |-> "valid", userId |-> id, email |-> email, role |-> role]

\* Authorization headers that carry no verifiable session token: none at
\* all, one that is not "Bearer <token>", a token with a bad signature, an
\* expired token.
BadHeaders ==
    {[kind |-> k, userId |-> NULL, email |-> NULL, role |-> NULL] :
        k \in {"none", "malformed", "badsig", "expired"}}

\* extractBearerToken: null unless the header is "Bearer <token>".
extractBearerToken(h) == IF h.kind \in {"none", "malformed"} THEN NoToken ELSE h

\* What the try block of authenticate throws, or "ok": an AppError carries
\* its message, jwt.verify throws an error that is no AppError.
AuthFailure(h) ==
    IF extractBearerToken(h).kind = "absent" THEN "Authentication token is required"
    ELSE IF h.kind # "valid" THEN "jwt"
    ELSE IF h.userId \notin DOMAIN users THEN "User not found"
    ELSE IF users[h.userId].status # "ACTIVE" THEN "Account is not active"
    ELSE "ok"

\* The catch block of authenticate: 401 with message 'Invalid or expired
\* token' and error = the AppError's message, or 'Invalid or expired token'.
AuthErrorBody(failure) ==
    IF failure = "jwt" THEN "Invalid or expired token" ELSE failure

AuthRejection(route, req, h) ==
    [n |-> 0, op |-> route, req |-> req, status |-> 401, message |-> "Invalid or expired token",
     error |-> AuthErrorBody(AuthFailure(h)), token |-> NoToken, user |-> NoView]

\* The role check letting every authenticated role through.
Authorize_AnyRole(role, allowed) ==
    IF role = NULL THEN "Authentication required" ELSE "ok"

\* authorize(allowedRoles) on req.user (NULL when no user is attached).
Authorize(role, allowed) ==
    IF role = NULL THEN "Authentication required"
    ELSE IF role \notin allowed THEN "Insufficient permissions"
    ELSE "ok"

\* Routes of /api/users; the admin routes sit behind requireAdmin.
AdminRoutes ==
    {"getUsers", "getUserById", "updateUser", "deleteUser", "suspend", "activate"}

\* The handler's first await, per route.
FirstAwait(route) ==
    CASE route = "getMe" -> "me_read"
      [] route = "updateMe" -> "me_write"
      [] route \in {"getUsers", "getUserById"} -> "admin_read"
      [] route = "updateUser" -> "update_write"
      [] route = "deleteUser" -> "delete_write"
      [] route = "suspend" -> "suspend_read"
      [] OTHER -> "activate_read"

\* The own-account guard of the controllers that guard delete only.
SelfGuard_DeleteOnly(route, actor, target) ==
    IF actor # target THEN NULL
    ELSE IF route = "deleteUser" THEN "You cannot delete your own account"
    ELSE NULL

\* The controllers' own-account guards (deleteUserController,
\* suspendUserController), or NULL.
SelfGuard(route, actor, target) ==
    IF actor # target THEN NULL
    ELSE IF route = "deleteUser" THEN "You cannot delete your own account"
    ELSE IF route = "suspend" THEN "Cannot suspend your own account"
    ELSE NULL

\* The request a handler of /api/users is serving: who asks, about whom.
Rq(p) == [actor |-> loc[p].actor, target |-> loc[p].target]

\* A request with an Authorization header that authenticate cannot verify:
\* whatever the route, router.use(authenticate) answers it.
RejectUnverified(p, h) ==
    /\ Begin(p)
    /\ h \in BadHeaders
    /\ Reply(p, AuthRejection("authenticate", h.kind, h))
    /\ UNCHANGED <<users, tokens, now, sessions, outbox, consumed, barred>>

\* nameSchema: letters, spaces, hyphens and apostrophes, one character at
\* least. "R2D2" is not a name.
InvalidNames == {"R2D2"}
nameSchema(name) == name \notin InvalidNames

\* The profile schema that lets unknown keys through.
UpdateProfileSchema_Passthrough(body) == body

\* UpdateProfileSchema.parse(body) of a body that passes: a z.object of name
\* and bio, so every other key of the body is stripped.
UpdateProfileSchema(body) == [f \in DOMAIN body \cap {"name", "bio"} |-> body[f]]

\* UpdateProfileSchema fails: name is there and is not a name.
ProfileInvalid(body) == "name" \in DOMAIN body /\ ~nameSchema(body.name)

\* A role check that trusts the role claim of the session token.
StartRequest_TokenRole(p, h, route, target, data) ==
    /\ Begin(p)
    /\ h \in sessions
    /\ LET failure == AuthFailure(h)
           role == h.role
           guard == SelfGuard(route, h.userId, target)
           rq == [actor |-> h.userId, target |-> target]
           go == [IdleLoc EXCEPT !.op = route, !.actor = h.userId, !.actorRole = role,
                                 !.target = target,
                                 !.data = IF route = "updateMe"
                                          THEN UpdateProfileSchema(data) ELSE data]
       IN
       IF failure # "ok"
       THEN Reply(p, AuthRejection(route, rq, h))
       ELSE IF route \in AdminRoutes /\ Authorize(role, ADMIN_ROLES) # "ok"
       THEN Reply(p, ErrorResponse(route, rq, IF role = NULL THEN 401 ELSE 403,
                                   Authorize(role, ADMIN_ROLES)))
       ELSE IF guard # NULL
       THEN Reply(p, ErrorResponse(route, rq, 400, guard))
       ELSE IF route = "updateMe" /\ ProfileInvalid(data)
       THEN Reply(p, ErrorResponse(route, rq, 400, "Invalid input data"))
       ELSE /\ pc' = [pc EXCEPT ![p] = FirstAwait(route)]
            /\ loc' = [loc EXCEPT ![p] = go]
            /\ resp' = [resp EXCEPT ![p] = Pending(p)]
    /\ UNCHANGED <<users, tokens, now, sessions, outbox, consumed, barred>>

\* A request to /api/users carrying an issued session token: authenticate
\* (findById), then requireAdmin and the controller up to its first await
\* (for PUT /me the UpdateProfileSchema parse comes first).
StartRequest(p, h, route, target, data) ==
    /\ Begin(p)
    /\ h \in sessions
    /\ LET failure == AuthFailure(h)
           role == users[h.userId].role
           guard == SelfGuard(route, h.userId, target)
           rq == [actor |-> h.userId, target |-> target]
           go == [IdleLoc EXCEPT !.op = route, !.actor = h.userId, !.actorRole = role,
                                 !.target = target,
                                 !.data = IF route = "updateMe"
                                          THEN UpdateProfileSchema(data) ELSE data]
       IN
       IF failure # "ok"
       THEN Reply(p, AuthRejection(route, rq, h))
       ELSE IF route \in AdminRoutes /\ Authorize(role, ADMIN_ROLES) # "ok"
       THEN Reply(p, ErrorResponse(route, rq, IF role = NULL THEN 401 ELSE 403,
                                   Authorize(role, ADMIN_ROLES)))
       ELSE IF guard # NULL
       THEN Reply(p, ErrorResponse(route, rq, 400, guard))
       ELSE IF route = "updateMe" /\ ProfileInvalid(data)
       THEN Reply(p, ErrorResponse(route, rq, 400, "Invalid input data"))
       ELSE /\ pc' = [pc EXCEPT ![p] = FirstAwait(route)]
            /\ loc' = [loc EXCEPT ![p] = go]
            /\ resp' = [resp EXCEPT ![p] = Pending(p)]
    /\ UNCHANGED <<users, tokens, now, sessions, outbox, consumed, barred>>

\* ------------------------------------------------------------ user store
\* UserRepository.update(id, data): the given columns are written as given.
update(table, id, data) ==
    [table EXCEPT ![id] =
        [f \in DOMAIN table[id] |-> IF f \in DOMAIN data THEN data[f] ELSE table[id][f]]]

\* UserRepository.delete(id): soft delete.
delete(table, id) == [table EXCEPT ![id].status = "DELETED"]

\* UserRepository.updateLastLogin(id)
updateLastLogin(table, id) ==
    IF id \in DOMAIN table THEN [table EXCEPT ![id].lastLogin = now] ELSE table

\* UserRepository.suspendUser(id, {reason, suspendedBy})
suspendUser(table, id, reason, by) ==
    [table EXCEPT ![id].status = "SUSPENDED", ![id].suspensionReason = reason,
                  ![id].suspendedAt = now, ![id].suspendedBy = by]

\* UserRepository.activateUser(id, activatedBy)
activateUser(table, id, by) ==
    [table EXCEPT ![id].status = "ACTIVE", ![id].suspensionReason = NULL,
                  ![id].suspendedAt = NoTime, ![id].suspendedBy = NULL]

\* UserRepository.findByEmail(email): the id of the row, or NULL.
findByEmail(e) ==
    IF \E id \in DOMAIN users : users[id].email = e
    THEN CHOOSE id \in DOMAIN users : users[id].email = e
    ELSE NULL

\* ------------------------------------------------------- /api/users/me
MeRead(p) ==
    /\ pc[p] = "me_read"
    /\ IF loc[p].actor \in DOMAIN users
       THEN Reply(p, SuccessResponse("getMe", Rq(p), 200,
                                     "User profile retrieved successfully"))
       ELSE Reply(p, ErrorResponse("getMe", Rq(p), 404, "User not found"))
    /\ UNCHANGED <<users, tokens, now, sessions, outbox, nreq, consumed, barred>>

MeWrite(p) ==
    /\ pc[p] = "me_write"
    /\ IF loc[p].actor \in DOMAIN users
       THEN /\ users' = update(users, loc[p].actor, loc[p].data)
            /\ Reply(p, SuccessResponse("updateMe", Rq(p), 200,
                                        "User profile updated successfully"))
       ELSE /\ Reply(p, ErrorResponse("updateMe", Rq(p), 404, "User not found"))
            /\ UNCHANGED users
    /\ UNCHANGED <<tokens, now, sessions, outbox, nreq, consumed, barred>>

\* ------------------------------------------------------- admin handlers
\* getUsersHandler / getUserByIdHandler
AdminRead(p) ==
    /\ pc[p] = "admin_read"
    /\ IF loc[p].op = "getUsers"
       THEN Reply(p, SuccessResponse("getUsers", Rq(p), 200,
                                     "Users retrieved successfully"))
       ELSE IF loc[p].target \in DOMAIN users
       THEN Reply(p, SuccessResponse("getUserById", Rq(p), 200,
                                     "User retrieved successfully"))
       ELSE Reply(p, ErrorResponse("getUserById", Rq(p), 404, "User not found"))
    /\ UNCHANGED <<users, tokens, now, sessions, outbox, nreq, consumed, barred>>

\* updateUserHandler -> userService.updateUser -> userRepository.update
UpdateUserWrite(p) ==
    /\ pc[p] = "update_write"
    /\ IF loc[p].target \in DOMAIN users
       THEN /\ users' = update(users, loc[p].target, loc[p].data)
            /\ Reply(p, SuccessResponse("updateUser", Rq(p), 200,
                                        "User updated successfully"))
       ELSE /\ Reply(p, ErrorResponse("updateUser", Rq(p), 404, "User not found"))
            /\ UNCHANGED users
    /\ UNCHANGED <<tokens, now, sessions, outbox, nreq, consumed, barred>>

\* deleteUserHandler -> userService.deleteUser -> userRepository.delete
DeleteWrite(p) ==
    /\ pc[p] = "delete_write"
    /\ IF loc[p].target \in DOMAIN users
       THEN /\ users' = delete(users, loc[p].target)
            /\ barred' = barred \cup {loc[p].target}
            /\ Reply(p, SuccessResponse("deleteUser", Rq(p), 200,
                                        "User deleted successfully"))
       ELSE /\ Reply(p, ErrorResponse("deleteUser", Rq(p), 404, "User not found"))
            /\ UNCHANGED <<users, barred>>
    /\ UNCHANGED <<tokens, now, sessions, outbox, nreq, consumed>>

\* The checks of suspendUserHandler without the one on the role.
SuspendRefusal_NoRoleCheck(row) ==
    IF row.status = "SUSPENDED" THEN "User is already suspended"
    ELSE IF row.status = "DELETED" THEN "Cannot suspend deleted user"
    ELSE NULL

\* The checks of suspendUserHandler without the one on a deleted target.
SuspendRefusal_NoDeletedCheck(row) ==
    IF row.status = "SUSPENDED" THEN "User is already suspended"
    ELSE IF row.role = "ADMIN" \/ row.role = "SUPER_ADMIN" THEN "Cannot suspend admin users"
    ELSE NULL

\* What suspendUserHandler throws on the row it read, or NULL.
SuspendRefusal(row) ==
    IF row.status = "SUSPENDED" THEN "User is already suspended"
    ELSE IF row.status = "DELETED" THEN "Cannot suspend deleted user"
    ELSE IF row.role = "ADMIN" \/ row.role = "SUPER_ADMIN" THEN "Cannot suspend admin users"
    ELSE NULL

SuspendRefusalStatus(msg) == IF msg = "Cannot suspend admin users" THEN 403 ELSE 400

\* suspendUserHandler: findById and the checks on the row.
SuspendRead(p) ==
    /\ pc[p] = "suspend_read"
    /\ LET id == loc[p].target IN
       IF id \notin DOMAIN users
       THEN Reply(p, ErrorResponse("suspend", Rq(p), 404, "User not found"))
       ELSE IF SuspendRefusal(users[id]) # NULL
       THEN Reply(p, ErrorResponse("suspend", Rq(p),
                                   SuspendRefusalStatus(SuspendRefusal(users[id])),
                                   SuspendRefusal(users[id])))
       ELSE /\ pc' = [pc EXCEPT ![p] = "suspend_write"]
            /\ loc' = [loc EXCEPT ![p].seen = users[id].role]
            /\ UNCHANGED resp
    /\ UNCHANGED <<users, tokens, now, sessions, outbox, nreq, consumed, barred>>

\* suspendUserHandler: the write, the notification inside its own
\* try/catch (a failure is logged and dropped), 200.
SuspendWrite(p) ==
    /\ pc[p] = "suspend_write"
    /\ users' = suspendUser(users, loc[p].target, loc[p].data, loc[p].actor)
    /\ \E out \in SendOutcomes :
          outbox' = sendEmail(outbox, "account-suspended", loc[p].target, out)
    /\ barred' = barred \cup {loc[p].target}
    /\ Reply(p, SuccessResponse("suspend", Rq(p), 200, "User suspended successfully"))
    /\ UNCHANGED <<tokens, now, sessions, nreq, consumed>>

\* The activation that does not look at the status it read.
ActivateRead_NoStatusCheck(p) ==
    /\ pc[p] = "activate_read"
    /\ LET id == loc[p].target IN
       IF id \notin DOMAIN users
       THEN Reply(p, ErrorResponse("activate", Rq(p), 404, "User not found"))
       ELSE /\ pc' = [pc EXCEPT ![p] = "activate_write"]
            /\ UNCHANGED <<loc, resp>>
    /\ UNCHANGED <<users, tokens, now, sessions, outbox, nreq, consumed, barred>>

\* activateUserHandler: findById and the check on the row.
ActivateRead(p) ==
    /\ pc[p] = "activate_read"
    /\ LET id == loc[p].target IN
       IF id \notin DOMAIN users
       THEN Reply(p, ErrorResponse("activate", Rq(p), 404, "User not found"))
       ELSE IF users[id].status # "SUSPENDED"
       THEN Reply(p, ErrorResponse("activate", Rq(p), 400, "User is not suspended"))
       ELSE /\ pc' = [pc EXCEPT ![p] = "activate_write"]
            /\ UNCHANGED <<loc, resp>>
    /\ UNCHANGED <<users, tokens, now, sessions, outbox, nreq, consumed, barred>>

\* The activation that sends its mail and its 200 without the write.
ActivateWrite_WithoutWrite(p) ==
    /\ pc[p] = "activate_write"
    /\ \E out \in SendOutcomes :
          outbox' = sendEmail(outbox, "account-activated", loc[p].target, out)
    /\ barred' = barred \ {loc[p].target}
    /\ Reply(p, SuccessResponse("activate", Rq(p), 200, "User activated successfully"))
    /\ UNCHANGED <<users, tokens, now, sessions, nreq, consumed>>

\* activateUserHandler: the write, the notification inside its own
\* try/catch (a failure is logged and dropped), 200.
ActivateWrite(p) ==
    /\ pc[p] = "activate_write"
    /\ users' = activateUser(users, loc[p].target, loc[p].actor)
    /\ \E out \in SendOutcomes :
          outbox' = sendEmail(outbox, "account-activated", loc[p].target, out)
    /\ barred' = barred \ {loc[p].target}
    /\ Reply(p, SuccessResponse("activate", Rq(p), 200, "User activated successfully"))
    /\ UNCHANGED <<tokens, now, sessions, nreq, consumed>>

\* ------------------------------------------------------------------ login
\* The login that tells an unknown address from a wrong password.
LoginFind_RevealsUnknownEmail(p, email, pw) ==
    /\ Begin(p)
    /\ LET id == findByEmail(normalizeEmail(email))
           rq == [email |-> email, password |-> pw]
       IN
       IF id = NULL
       THEN Reply(p, ErrorResponse("login", rq, 404, "User not found"))
       ELSE IF users[id].status # "ACTIVE"
       THEN Reply(p, ErrorResponse("login", rq, 401, "Invalid credentials"))
       ELSE IF ~comparePassword(pw, users[id].password)
       THEN Reply(p, ErrorResponse("login", rq, 401, "Invalid credentials"))
       ELSE /\ pc' = [pc EXCEPT ![p] = "login_stamp"]
            /\ loc' = [loc EXCEPT ![p] =
                   [IdleLoc EXCEPT !.op = "login", !.userId = id, !.data = rq,
                                   !.seen = users[id].status]]
            /\ resp' = [resp EXCEPT ![p] = Pending(p)]
    /\ UNCHANGED <<users, tokens, now, sessions, outbox, consumed, barred>>

\* AuthService.login -> AuthRepository.authenticate: findByEmail on the
\* normalized address, the ACTIVE filter and the password comparison.
\* (The route's authLimiter admits 5 requests per window; the request
\* budget of a behaviour stays below it.)
LoginFind(p, email, pw) ==
    /\ Begin(p)
    /\ LET id == findByEmail(normalizeEmail(email))
           rq == [email |-> email, password |-> pw]
       IN
       IF id = NULL \/ users[id].status # "ACTIVE"
       THEN Reply(p, ErrorResponse("login", rq, 401, "Invalid credentials"))
       ELSE IF ~comparePassword(pw, users[id].password)
       THEN Reply(p, ErrorResponse("login", rq, 401, "Invalid credentials"))
       ELSE /\ pc' = [pc EXCEPT ![p] = "login_stamp"]
            /\ loc' = [loc EXCEPT ![p] =
                   [IdleLoc EXCEPT !.op = "login", !.userId = id, !.data = rq,
                                   !.seen = users[id].status]]
            /\ resp' = [resp EXCEPT ![p] = Pending(p)]
    /\ UNCHANGED <<users, tokens, now, sessions, outbox, consumed, barred>>

\* AuthRepository.authenticate: updateLastLogin
LoginStamp(p) ==
    /\ pc[p] = "login_stamp"
    /\ users' = updateLastLogin(users, loc[p].userId)
    /\ pc' = [pc EXCEPT ![p] = "login_reread"]
    /\ UNCHANGED <<tokens, now, loc, resp, sessions, outbox, nreq, consumed, barred>>

\* The login that signs a token without looking at the status again.
LoginReread_NoRecheck(p) ==
    /\ pc[p] = "login_reread"
    /\ LET id == loc[p].userId
           rq == loc[p].data
           jwt == generateToken(id, users[id].email, users[id].role)
       IN
       /\ sessions' = sessions \cup {jwt}
       /\ Reply(p, [SuccessResponse("login", rq, 200, "Login successful")
                       EXCEPT !.token = jwt])
    /\ UNCHANGED <<users, tokens, now, outbox, nreq, consumed, barred>>

\* AuthRepository.authenticate returns findById(user.id); AuthService.login
\* checks that row's status again and signs the session token.
LoginReread(p) ==
    /\ pc[p] = "login_reread"
    /\ LET id == loc[p].userId
           rq == loc[p].data
       IN
       IF id \notin DOMAIN users
       THEN Reply(p, ErrorResponse("login", rq, 401, "Invalid credentials")) /\ UNCHANGED sessions
       ELSE IF users[id].status = "SUSPENDED"
       THEN Reply(p, ErrorResponse("login", rq, 403, "Account is suspended")) /\ UNCHANGED sessions
       ELSE IF users[id].status = "DELETED"
       THEN Reply(p, ErrorResponse("login", rq, 404, "Account not found")) /\ UNCHANGED sessions
       ELSE LET jwt == generateToken(id, users[id].email, users[id].role) IN
            /\ sessions' = sessions \cup {jwt}
            /\ Reply(p, [SuccessResponse("login", rq, 200, "Login successful")
                            EXCEPT !.token = jwt])
    /\ UNCHANGED <<users, tokens, now, outbox, nreq, consumed, barred>>

\* ----------------------------------------------------------------- rows
UserRow(email, pw, role, status) ==
    [email |-> email, password |-> hashPassword(pw), name |-> NULL, bio |-> NULL,
     role |-> role, status |-> status,
     emailVerified |-> FALSE, emailVerifiedAt |-> NoTime,
     suspensionReason |-> NULL, suspendedAt |-> NoTime, suspendedBy |-> NULL,
     lastLogin |-> NoTime]

TokenRow(id, type, created, ttl) ==
    [userId |-> id, type |-> type, expiresAt |-> created + ttl,
     usedAt |-> NoTime, createdAt |-> created]

\* The accounts of a running installation: a user, an admin, a super admin.
SeedUsers ==
    [id \in UserIds |->
        CASE id = "u1" -> UserRow(Email("u1", FALSE, FALSE), "pw1", "USER", "ACTIVE")
          [] id = "a1" -> UserRow(Email("a1", FALSE, FALSE), "pw1", "ADMIN", "ACTIVE")
          [] OTHER     -> UserRow(Email("s1", FALSE, FALSE), "pw1", "SUPER_ADMIN", "ACTIVE")]

InitCommon ==
    /\ users = SeedUsers
    /\ now = 0
    /\ pc = [p \in Procs |-> "idle"]
    /\ loc = [p \in Procs |-> IdleLoc]
    /\ resp = [p \in Procs |-> NoResp]
    /\ outbox = [k \in EMAIL_TYPES \X UserIds |-> 0]
    /\ nreq = 0
    /\ consumed = [t \in RawTokens |-> 0]
    /\ barred = {}

\* ------------------------------------------------ specification: tokens
\* The token store after u1 asked for a verification mail and a reset mail.
InitTokens ==
    /\ InitCommon
    /\ sessions = {}
    /\ tokens = ("tv" :> TokenRow("u1", "VERIFICATION", 0, VERIFICATION_TOKEN_EXPIRY))
             @@ ("tr" :> TokenRow("u1", "PASSWORD_RESET", 0, RESET_TOKEN_EXPIRY))

NextTokens ==
    \/ Tick
    \/ \E p \in Procs, raw \in RawTokens :
          \/ ConsumeFind(p, "verifyEmail", raw, NULL)
          \/ \E pw \in Passwords : ConsumeFind(p, "resetPassword", raw, pw)
    \/ \E p \in Procs :
          \/ ConsumeUpdate(p)
          \/ VerifyEmailLoad(p)
          \/ VerifyEmailWrite(p)
          \/ ResetPasswordLoad(p)
          \/ ResetPasswordWrite(p)

SpecTokens == InitTokens /\ [][NextTokens]_vars

\* The same handlers when requests arrive one after the other: a handler
\* takes a step only while no other request is in flight.
Alone(p) == \A q \in Procs \ {p} : pc[q] = "idle"

NextTokensSeq ==
    \/ Tick
    \/ \E p \in Procs, raw \in RawTokens :
          \/ Alone(p) /\ ConsumeFind(p, "verifyEmail", raw, NULL)
          \/ \E pw \in Passwords : Alone(p) /\ ConsumeFind(p, "resetPassword", raw, pw)
    \/ \E p \in Procs :
          \/ Alone(p) /\ ConsumeUpdate(p)
          \/ Alone(p) /\ VerifyEmailLoad(p)
          \/ Alone(p) /\ VerifyEmailWrite(p)
          \/ Alone(p) /\ ResetPasswordLoad(p)
          \/ Alone(p) /\ ResetPasswordWrite(p)

SpecTokensSeq == InitTokens /\ [][NextTokensSeq]_vars

\* --------------------------------------------- specification: lifecycle
\* Bodies of PUT /api/users/:id that pass UpdateUserSchema and write a
\* role or a status.
AdminPatches ==
    {[status |-> st] : st \in USER_STATUS} \cup {[role |-> r] : r \in USER_ROLES}
\* Bodies of PUT /api/users/me that pass UpdateProfileSchema.
ProfilePatches == {[name |-> "Ann"]}

\* <<route, :id, body>> of the requests to /api/users.
UserRequests ==
    ({"getMe"} \X {NULL} \X {NULL})
    \cup ({"updateMe"} \X {NULL} \X ProfilePatches)
    \cup ({"getUsers"} \X {NULL} \X {NULL})
    \cup ({"getUserById", "deleteUser", "activate"} \X UserIds \X {NULL})
    \cup ({"updateUser"} \X UserIds \X AdminPatches)
    \cup ({"suspend"} \X UserIds \X Reasons)

\* Addresses typed into the login form: u1's as stored, u1's in capitals,
\* and one that is not registered.
LoginEmails ==
    {Email("u1", FALSE, FALSE), Email("u1", TRUE, FALSE), Email("nobody", FALSE, FALSE)}

\* A running installation: the seeded accounts, each holding the session
\* token of an earlier login.
InitLife ==
    /\ InitCommon
    /\ tokens = << >>
    /\ sessions = {generateToken(id, SeedUsers[id].email, SeedUsers[id].role) : id \in UserIds}

\* The accounts whose requests are followed: the user and one admin (the
\* super admin is a target only).
LifeActors == {"u1", "a1"}

NextLife ==
    \/ \E p \in Procs, h \in BadHeaders : RejectUnverified(p, h)
    \/ \E p \in Procs, h \in sessions, r \in UserRequests :
          h.userId \in LifeActors /\ StartRequest(p, h, r[1], r[2], r[3])
    \/ \E p \in Procs :
          \/ MeRead(p)
          \/ MeWrite(p)
          \/ AdminRead(p)
          \/ UpdateUserWrite(p)
          \/ DeleteWrite(p)
          \/ SuspendRead(p)
          \/ SuspendWrite(p)
          \/ ActivateRead(p)
          \/ ActivateWrite(p)

SpecLife == InitLife /\ [][NextLife]_vars

\* ------------------------------------------------- specification: login
\* What the admins do to accounts while logins are under way.
StatusRequests ==
    ({"suspend"} \X {"u1"} \X Reasons) \cup ({"activate", "deleteUser"} \X {"u1"} \X {NULL})

NextLogin ==
    \/ \E p \in Procs, e \in LoginEmails, pw \in Passwords : LoginFind(p, e, pw)
    \/ \E p \in Procs, h \in sessions, r \in StatusRequests :
          h.role \in ADMIN_ROLES /\ StartRequest(p, h, r[1], r[2], r[3])
    \/ \E p \in Procs :
          \/ LoginStamp(p)
          \/ LoginReread(p)
          \/ DeleteWrite(p)
          \/ SuspendRead(p)
          \/ SuspendWrite(p)
          \/ ActivateRead(p)
          \/ ActivateWrite(p)

SpecLogin == InitLife /\ [][NextLogin]_vars

\* --------------------------------------------------------------- register
\* Ids that cuid() gives to the rows created while the system runs.
NewIds == {"n1", "n2"}
NewId(table) == CHOOSE id \in NewIds : id \notin DOMAIN table

\* RegisterSchema = z.object({email, password, name}): parse keeps the
\* declared keys and drops every other key of the body.
RegisterFields == {"email", "password", "name"}
RegisterSchema(body) == [f \in RegisterFields |-> body[f]]

\* AuthRepository.register: the userData handed to userRepository.create.
register(credentials) ==
    [email |-> normalizeEmail(credentials.email),
     password |-> hashPassword(credentials.password),
     name |-> credentials.name,
     role |-> "USER"]

\* The insert when the column emailVerified defaults to true.
create_DefaultVerified(table, id, userData) ==
    LET defaults ==
            [email |-> NULL, password |-> NULL, name |-> NULL, bio |-> NULL,
             role |-> "USER", status |-> "ACTIVE",
             emailVerified |-> TRUE, emailVerifiedAt |-> NoTime,
             suspensionReason |-> NULL, suspendedAt |-> NoTime, suspendedBy |-> NULL,
             lastLogin |-> NoTime]
    IN (id :> [f \in DOMAIN defaults |->
                  IF f \in DOMAIN userData THEN userData[f] ELSE defaults[f]]) @@ table

\* UserRepository.create -> prisma.user.create({data: userData}): the columns
\* the data does not give take the defaults of model User.
create(table, id, userData) ==
    LET defaults ==
            [email |-> NULL, password |-> NULL, name |-> NULL, bio |-> NULL,
             role |-> "USER", status |-> "ACTIVE",
             emailVerified |-> FALSE, emailVerifiedAt |-> NoTime,
             suspensionReason |-> NULL, suspendedAt |-> NoTime, suspendedBy |-> NULL,
             lastLogin |-> NoTime]
    IN (id :> [f \in DOMAIN defaults |->
                  IF f \in DOMAIN userData THEN userData[f] ELSE defaults[f]]) @@ table

\* The lookup that skips the rows of deleted accounts.
emailExists_IgnoringDeleted(e) ==
    \E id \in DOMAIN users : users[id].email = e /\ users[id].status # "DELETED"

\* UserRepository.emailExists(email): findUnique on the column as given.
emailExists(e) == findByEmail(e) # NULL

\* sanitizeUser(user): the columns copied into the response.
sanitizeUser(id, row) ==
    [id |-> id, email |-> row.email, name |-> row.name, role |-> row.role,
     status |-> row.status, emailVerified |-> row.emailVerified,
     emailVerifiedAt |-> row.emailVerifiedAt, lastLogin |-> row.lastLogin]

\* registerController and AuthService.register up to the first await:
\* RegisterSchema.parse (emailSchema refuses an address with surrounding
\* blanks), then isEmailAvailable on the normalized address.
RegisterCheck(p, body) ==
    /\ Begin(p)
    /\ IF body.email.pad
       THEN Reply(p, ErrorResponse("register", body, 400, "Invalid input data"))
       ELSE IF emailExists(normalizeEmail(RegisterSchema(body).email))
       THEN Reply(p, ErrorResponse("register", body, 409, "Email is already registered"))
       ELSE /\ pc' = [pc EXCEPT ![p] = "register_create"]
            /\ loc' = [loc EXCEPT ![p] = [IdleLoc EXCEPT !.op = "register", !.data = body]]
            /\ resp' = [resp EXCEPT ![p] = Pending(p)]
    /\ UNCHANGED <<users, tokens, now, sessions, outbox, consumed, barred>>

\* AuthRepository.register (hash, create), then sanitizeUser, generateToken
\* and the 201.  The column email is @unique: an insert of an address that
\* is stored by now throws a prisma error, which is no AppError and which
\* registerHandler answers with 500 and the error's own message.
RegisterCreate(p) ==
    /\ pc[p] = "register_create"
    /\ LET body == loc[p].data
           userData == register(RegisterSchema(body))
       IN
       IF emailExists(userData.email)
       THEN /\ Reply(p, ErrorResponse("register", body, 500,
                                      "Unique constraint failed on the fields: (email)"))
            /\ UNCHANGED <<users, sessions>>
       ELSE LET id == NewId(users)
                table == create(users, id, userData)
                jwt == generateToken(id, table[id].email, table[id].role)
            IN
            /\ users' = table
            /\ sessions' = sessions \cup {jwt}
            /\ Reply(p, [SuccessResponse("register", body, 201, "User registered successfully")
                            EXCEPT !.token = jwt, !.user = sanitizeUser(id, table[id])])
    /\ UNCHANGED <<tokens, now, outbox, nreq, consumed, barred>>

\* ---------------------------------------------- specification: register
\* Addresses typed into the registration form: u1's as stored and in
\* capitals, a free one in lower case, in capitals and with a leading
\* blank, and a second free one.
RegisterEmails ==
    {Email("u1", FALSE, FALSE), Email("u1", TRUE, FALSE),
     Email("new", FALSE, FALSE), Email("new", TRUE, FALSE), Email("new", FALSE, TRUE),
     Email("x2", FALSE, FALSE)}

\* Keys a body may carry beside those of RegisterSchema.
RegisterExtras ==
    {[role |-> "ADMIN"],
     [status |-> "SUSPENDED", suspensionReason |-> "policy violation", suspendedBy |-> "a1"],
     [emailVerified |-> TRUE]}

RegisterBodies ==
    LET plain == {[email |-> e, password |-> "pw2", name |-> "Ann"] : e \in RegisterEmails}
    IN plain \cup {b @@ x : b \in plain, x \in RegisterExtras}

\* A running installation in which one admin holds a session.
InitRegister ==
    /\ InitCommon
    /\ tokens = << >>
    /\ sessions = {generateToken("a1", SeedUsers["a1"].email, SeedUsers["a1"].role)}

NextRegister ==
    \/ \E p \in Procs, body \in RegisterBodies : RegisterCheck(p, body)
    \/ \E p \in Procs, h \in sessions, r \in StatusRequests :
          h.role \in ADMIN_ROLES /\ StartRequest(p, h, r[1], r[2], r[3])
    \/ \E p \in Procs :
          \/ RegisterCreate(p)
          \/ DeleteWrite(p)
          \/ SuspendRead(p)
          \/ SuspendWrite(p)
          \/ ActivateRead(p)
          \/ ActivateWrite(p)

SpecRegister == InitRegister /\ [][NextRegister]_vars

\* ------------------------------------------------------------ token issue
\* Token strings drawn by crypto.randomBytes(32): the n-th request of a
\* behaviour draws the n-th string, so no string is drawn twice.
FreshTokens == {"t1", "t2", "t3", "t4", "t5"}
randomBytes(n) ==
    CASE n = 1 -> "t1" [] n = 2 -> "t2" [] n = 3 -> "t3" [] n = 4 -> "t4" [] OTHER -> "t5"

ExpiryOf(type) ==
    IF type = "VERIFICATION" THEN VERIFICATION_TOKEN_EXPIRY ELSE RESET_TOKEN_EXPIRY

\* The cooldown check that looks at the tokens of every account.
canRequestVerification_AnyAccount(userId) ==
    ~\E t \in DOMAIN tokens :
        /\ tokens[t].type = "VERIFICATION"
        /\ tokens[t].createdAt > now - RESEND_VERIFICATION_COOLDOWN

\* EmailRepository.canRequestVerification(userId): no row of the account
\* with type VERIFICATION and createdAt > now - cooldown.
canRequestVerification(userId) ==
    ~\E t \in DOMAIN tokens :
        /\ tokens[t].userId = userId
        /\ tokens[t].type = "VERIFICATION"
        /\ tokens[t].createdAt > now - RESEND_VERIFICATION_COOLDOWN

\* prisma.emailToken.deleteMany({where: {userId, type}})
deleteMany(table, userId, type) ==
    [t \in {x \in DOMAIN table : ~(table[x].userId = userId /\ table[x].type = type)}
        |-> table[t]]

GenericResetMessage ==
    "If an account with this email exists, a password reset link has been sent."

\* sendPasswordResetController and sendPasswordResetHandler up to the first
\* await: PasswordResetRequestSchema (an address with surrounding blanks is
\* no email), findByEmail on the address as typed, the ACTIVE check.
\* (The route's limiter counts requests per client address; the clients of
\* a behaviour stay within it.)
ResetRequestFind(p, email) ==
    /\ Begin(p)
    /\ LET rq == [email |-> email]
           id == findByEmail(email)
       IN
       IF email.pad
       THEN Reply(p, [ErrorResponse("requestPasswordReset", rq, 400, "Invalid request data")
                         EXCEPT !.error = "Invalid email format"])
       ELSE IF id = NULL
       THEN Reply(p, SuccessResponse("requestPasswordReset", rq, 200, GenericResetMessage))
       ELSE IF users[id].status # "ACTIVE"
       THEN Reply(p, SuccessResponse("requestPasswordReset", rq, 200, GenericResetMessage))
       ELSE /\ pc' = [pc EXCEPT ![p] = "resetreq_limit"]
            /\ loc' = [loc EXCEPT ![p] =
                   [IdleLoc EXCEPT !.op = "requestPasswordReset", !.userId = id,
                                   !.data = rq, !.type = "PASSWORD_RESET",
                                   !.token = randomBytes(nreq')]]
            /\ resp' = [resp EXCEPT ![p] = Pending(p)]
    /\ UNCHANGED <<users, tokens, now, sessions, outbox, consumed, barred>>

\* sendPasswordResetHandler: the rate limit, "the same method" as for the
\* verification mail.
ResetRequestLimit(p) ==
    /\ pc[p] = "resetreq_limit"
    /\ IF canRequestVerification(loc[p].userId)
       THEN /\ pc' = [pc EXCEPT ![p] = "issue_delete"]
            /\ UNCHANGED <<loc, resp>>
       ELSE Reply(p, ErrorResponse("requestPasswordReset", loc[p].data, 429,
                "Too many password reset emails sent. Please wait before requesting another."))
    /\ UNCHANGED <<users, tokens, now, sessions, outbox, nreq, consumed, barred>>

\* POST /api/email/send-verification: authenticate, then the controller.
VerifyRequestStart(p, h) ==
    /\ Begin(p)
    /\ h \in sessions
    /\ LET rq == [actor |-> h.userId] IN
       IF AuthFailure(h) # "ok"
       THEN Reply(p, AuthRejection("requestEmailVerification", rq, h))
       ELSE /\ pc' = [pc EXCEPT ![p] = "vreq_load"]
            /\ loc' = [loc EXCEPT ![p] =
                   [IdleLoc EXCEPT !.op = "requestEmailVerification", !.userId = h.userId,
                                   !.actor = h.userId, !.data = rq, !.type = "VERIFICATION",
                                   !.token = randomBytes(nreq')]]
            /\ resp' = [resp EXCEPT ![p] = Pending(p)]
    /\ UNCHANGED <<users, tokens, now, sessions, outbox, consumed, barred>>

\* The request that does not look at emailVerified.
VerifyRequestLoad_NoVerifiedCheck(p) ==
    /\ pc[p] = "vreq_load"
    /\ LET id == loc[p].userId IN
       IF id \notin DOMAIN users
       THEN Reply(p, ErrorResponse("requestEmailVerification", loc[p].data, 404,
                                   "User not found"))
       ELSE /\ pc' = [pc EXCEPT ![p] = "vreq_limit"]
            /\ UNCHANGED <<loc, resp>>
    /\ UNCHANGED <<users, tokens, now, sessions, outbox, nreq, consumed, barred>>

\* sendEmailVerificationHandler: findById and the already-verified short cut.
VerifyRequestLoad(p) ==
    /\ pc[p] = "vreq_load"
    /\ LET id == loc[p].userId IN
       IF id \notin DOMAIN users
       THEN Reply(p, ErrorResponse("requestEmailVerification", loc[p].data, 404,
                                   "User not found"))
       ELSE IF users[id].emailVerified
       THEN Reply(p, SuccessResponse("requestEmailVerification", loc[p].data, 200,
                                     "Email is already verified"))
       ELSE /\ pc' = [pc EXCEPT ![p] = "vreq_limit"]
            /\ UNCHANGED <<loc, resp>>
    /\ UNCHANGED <<users, tokens, now, sessions, outbox, nreq, consumed, barred>>

\* sendEmailVerificationHandler: the rate limit.
VerifyRequestLimit(p) ==
    /\ pc[p] = "vreq_limit"
    /\ IF canRequestVerification(loc[p].userId)
       THEN /\ pc' = [pc EXCEPT ![p] = "issue_delete"]
            /\ UNCHANGED <<loc, resp>>
       ELSE Reply(p, ErrorResponse("requestEmailVerification", loc[p].data, 429,
                "Too many verification emails sent. Please wait before requesting another."))
    /\ UNCHANGED <<users, tokens, now, sessions, outbox, nreq, consumed, barred>>

\* createVerificationToken / createPasswordResetToken, first await: the
\* deleteMany of the account's tokens of that type.
IssueDelete(p) ==
    /\ pc[p] = "issue_delete"
    /\ tokens' = deleteMany(tokens, loc[p].userId, loc[p].type)
    /\ pc' = [pc EXCEPT ![p] = "issue_create"]
    /\ UNCHANGED <<users, now, loc, resp, sessions, outbox, nreq, consumed, barred>>

\* createVerificationToken / createPasswordResetToken, second await: the
\* create; then the handler awaits EmailService.send...Email without looking
\* at the boolean it returns and answers 200; only a throw reaches the
\* handler's catch, which answers 500 with the error's message.
IssueCreate(p) ==
    /\ pc[p] = "issue_create"
    /\ LET type == loc[p].type
           id == loc[p].userId
       IN
       /\ tokens' = (loc[p].token :> TokenRow(id, type, now, ExpiryOf(type))) @@ tokens
       /\ \E out \in SendOutcomes :
             /\ outbox' = sendEmail(outbox,
                                    IF type = "VERIFICATION" THEN "email-verification"
                                                             ELSE "password-reset",
                                    id, out)
             /\ IF out = "threw"
                THEN Reply(p, ErrorResponse(loc[p].op, loc[p].data, 500,
                                            "Email service not initialized"))
                ELSE Reply(p, SuccessResponse(loc[p].op, loc[p].data, 200,
                                              IF type = "VERIFICATION"
                                              THEN "Verification email sent successfully"
                                              ELSE GenericResetMessage))
    /\ UNCHANGED <<users, now, sessions, nreq, consumed, barred>>

\* EmailRepository.getTokenInfo(token): findFirst({where: {token, usedAt:
\* null, expiresAt: {gt: new Date()}}}), whatever the type.
getTokenInfo(raw) ==
    IF /\ raw \in DOMAIN tokens
       /\ tokens[raw].usedAt = NoTime
       /\ tokens[raw].expiresAt > now
    THEN raw
    ELSE NULL

\* validateResetTokenHandler: getTokenInfo and the checks on the row.
ValidateFind(p, raw) ==
    /\ Begin(p)
    /\ LET info == getTokenInfo(raw) IN
       IF info = NULL
       THEN Reply(p, ErrorResponse("validateResetToken", raw, 400,
                                   "Invalid or expired reset token"))
       ELSE IF \/ tokens[info].type # "PASSWORD_RESET"
               \/ tokens[info].usedAt # NoTime
               \/ tokens[info].expiresAt < now
       THEN Reply(p, ErrorResponse("validateResetToken", raw, 400,
                                   "Invalid or expired reset token"))
       ELSE /\ pc' = [pc EXCEPT ![p] = "validate_load"]
            /\ loc' = [loc EXCEPT ![p] =
                   [IdleLoc EXCEPT !.op = "validateResetToken", !.token = raw,
                                   !.userId = tokens[info].userId]]
            /\ resp' = [resp EXCEPT ![p] = Pending(p)]
    /\ UNCHANGED <<users, tokens, now, sessions, outbox, consumed, barred>>

\* The validation that does not look at the owner's status.
ValidateLoad_NoActiveCheck(p) ==
    /\ pc[p] = "validate_load"
    /\ LET id == loc[p].userId IN
       IF id \notin DOMAIN users
       THEN Reply(p, ErrorResponse("validateResetToken", loc[p].token, 400,
                                   "Invalid reset token"))
       ELSE Reply(p, SuccessResponse("validateResetToken", loc[p].token, 200,
                                     "Reset token is valid"))
    /\ UNCHANGED <<users, tokens, now, sessions, outbox, nreq, consumed, barred>>

\* validateResetTokenHandler: findById and the ACTIVE check.
ValidateLoad(p) ==
    /\ pc[p] = "validate_load"
    /\ LET id == loc[p].userId IN
       IF id \notin DOMAIN users \/ users[id].status # "ACTIVE"
       THEN Reply(p, ErrorResponse("validateResetToken", loc[p].token, 400,
                                   "Invalid reset token"))
       ELSE Reply(p, SuccessResponse("validateResetToken", loc[p].token, 200,
                                     "Reset token is valid"))
    /\ UNCHANGED <<users, tokens, now, sessions, outbox, nreq, consumed, barred>>

\* ------------------------------------------- specification: token issue
\* Addresses typed into the forgotten-password form: u1's as stored and in
\* capitals, s1's, and one that is not registered.
ResetEmails ==
    {Email("u1", FALSE, FALSE), Email("u1", TRUE, FALSE), Email("s1", FALSE, FALSE),
     Email("nobody", FALSE, FALSE)}

\* Token strings a request may carry: the issued ones and one never issued.
TokenInputs == FreshTokens \cup {"zz"}

\* The accounts that ask for a verification mail.
IssueActors == {"u1", "a1"}

\* A running installation with an empty token table; the super admin's
\* account has been deleted.
InitIssue ==
    /\ users = delete(SeedUsers, "s1")
    /\ tokens = [t \in {} |-> NULL]
    /\ now = 0
    /\ pc = [p \in Procs |-> "idle"]
    /\ loc = [p \in Procs |-> IdleLoc]
    /\ resp = [p \in Procs |-> NoResp]
    /\ sessions = {generateToken(id, SeedUsers[id].email, SeedUsers[id].role) : id \in IssueActors}
    /\ outbox = [k \in EMAIL_TYPES \X UserIds |-> 0]
    /\ nreq = 0
    /\ consumed = [t \in TokenInputs |-> 0]
    /\ barred = {"s1"}

NextIssue ==
    \/ Tick
    \/ \E p \in Procs, e \in ResetEmails : ResetRequestFind(p, e)
    \/ \E p \in Procs, h \in sessions : VerifyRequestStart(p, h)
    \/ \E p \in Procs, raw \in DOMAIN tokens \cup {"zz"} :
          \/ ConsumeFind(p, "verifyEmail", raw, NULL)
          \/ ConsumeFind(p, "resetPassword", raw, "pw2")
          \/ ValidateFind(p, raw)
    \/ \E p \in Procs :
          \/ ResetRequestLimit(p)
          \/ VerifyRequestLoad(p)
          \/ VerifyRequestLimit(p)
          \/ IssueDelete(p)
          \/ IssueCreate(p)
          \/ ConsumeUpdate(p)
          \/ VerifyEmailLoad(p)
          \/ VerifyEmailWrite(p)
          \/ ResetPasswordLoad(p)
          \/ ResetPasswordWrite(p)
          \/ ValidateLoad(p)

SpecIssue == InitIssue /\ [][NextIssue]_vars

\* ---------------------------------------- specification: token validation
\* The token store after u1 asked for a verification mail and a reset mail,
\* with one admin holding a session.
InitValidate ==
    /\ InitCommon
    /\ sessions = {generateToken("a1", SeedUsers["a1"].email, SeedUsers["a1"].role)}
    /\ tokens = ("tv" :> TokenRow("u1", "VERIFICATION", 0, VERIFICATION_TOKEN_EXPIRY))
             @@ ("tr" :> TokenRow("u1", "PASSWORD_RESET", 0, RESET_TOKEN_EXPIRY))

NextValidate ==
    \/ Tick
    \/ \E p \in Procs, raw \in RawTokens :
          \/ ValidateFind(p, raw)
          \/ \E pw \in Passwords : ConsumeFind(p, "resetPassword", raw, pw)
    \/ \E p \in Procs, h \in sessions, r \in StatusRequests :
          h.role \in ADMIN_ROLES /\ StartRequest(p, h, r[1], r[2], r[3])
    \/ \E p \in Procs :
          \/ ValidateLoad(p)
          \/ ConsumeUpdate(p)
          \/ ResetPasswordLoad(p)
          \/ ResetPasswordWrite(p)
          \/ DeleteWrite(p)
          \/ SuspendRead(p)
          \/ SuspendWrite(p)
          \/ ActivateRead(p)
          \/ ActivateWrite(p)

SpecValidate == InitValidate /\ [][NextValidate]_vars

\* ------------------------------------------- specification: suspension
\* An id that passes isValidUUID and names no account.
MissingId == "non-existent-id"

\* What two admins ask for: suspend and activate of the user, of an admin
\* and of no account, and the writes that change the user's status or role
\* meanwhile.
SuspendRequests ==
    ({"suspend"} \X {"u1", "s1", MissingId} \X {"policy violation", "spam"})
    \cup ({"activate"} \X {"u1", MissingId} \X {NULL})
    \cup ({"deleteUser"} \X {"u1"} \X {NULL})
    \cup ({"updateUser"} \X {"u1"} \X {[role |-> "ADMIN"], [status |-> "ACTIVE"]})

SuspendActors == {"a1", "s1"}

InitSuspend ==
    /\ InitCommon
    /\ tokens = << >>
    /\ sessions = {generateToken(id, SeedUsers[id].email, SeedUsers[id].role) :
                      id \in SuspendActors}

NextSuspend ==
    \/ \E p \in Procs, h \in sessions, r \in SuspendRequests :
          StartRequest(p, h, r[1], r[2], r[3])
    \/ \E p \in Procs :
          \/ UpdateUserWrite(p)
          \/ DeleteWrite(p)
          \/ SuspendRead(p)
          \/ SuspendWrite(p)
          \/ ActivateRead(p)
          \/ ActivateWrite(p)

SpecSuspend == InitSuspend /\ [][NextSuspend]_vars

\* ------------------------------------- specification: notifications
\* An admin suspends and activates the user while the user confirms a
\* password reset; every notification may or may not leave the transport.
NotifyRequests ==
    ({"suspend"} \X {"u1"} \X Reasons) \cup ({"activate"} \X {"u1"} \X {NULL})

InitNotify ==
    /\ InitCommon
    /\ sessions = {generateToken("a1", SeedUsers["a1"].email, SeedUsers["a1"].role)}
    /\ tokens = ("tr" :> TokenRow("u1", "PASSWORD_RESET", 0, RESET_TOKEN_EXPIRY))

NextNotify ==
    \/ \E p \in Procs, h \in sessions, r \in NotifyRequests :
          StartRequest(p, h, r[1], r[2], r[3])
    \/ \E p \in Procs : ConsumeFind(p, "resetPassword", "tr", "pw2")
    \/ \E p \in Procs :
          \/ SuspendRead(p)
          \/ SuspendWrite(p)
          \/ ActivateRead(p)
          \/ ActivateWrite(p)
          \/ ConsumeUpdate(p)
          \/ ResetPasswordLoad(p)
          \/ ResetPasswordWrite(p)

SpecNotify == InitNotify /\ [][NextNotify]_vars

\* ------------------------------------------------------ change password
\* passwordSchema: length, upper and lower case, digit, special character.
\* The passwords of Passwords satisfy it, "weak" does not.
WeakPasswords == {"weak"}
passwordSchema(pw) == pw \notin WeakPasswords

\* ChangePasswordSchema.parse(req.body): currentPassword of one character
\* at least ("" fails), newPassword through passwordSchema.
ChangePasswordSchema(body) ==
    body.currentPassword # "" /\ passwordSchema(body.newPassword)

\* UserRepository.changePassword(id, hashedPassword)
changePassword(table, id, digest) == [table EXCEPT ![id].password = digest]

\* PUT /api/auth/change-password: authenticate (findById), then the
\* controller's parse.
ChangePasswordStart(p, h, body) ==
    /\ Begin(p)
    /\ h \in sessions
    /\ LET rq == [actor |-> h.userId, target |-> h.userId] IN
       IF AuthFailure(h) # "ok"
       THEN Reply(p, AuthRejection("changePassword", rq, h))
       ELSE IF ~ChangePasswordSchema(body)
       THEN Reply(p, ErrorResponse("changePassword", rq, 400, "Invalid input data"))
       ELSE /\ pc' = [pc EXCEPT ![p] = "change_find"]
            /\ loc' = [loc EXCEPT ![p] =
                   [IdleLoc EXCEPT !.op = "changePassword", !.userId = h.userId,
                                   !.actor = h.userId, !.target = h.userId,
                                   !.data = body]]
            /\ resp' = [resp EXCEPT ![p] = Pending(p)]
    /\ UNCHANGED <<users, tokens, now, sessions, outbox, consumed, barred>>

\* The change that does not compare the current password.
ChangePasswordFind_NoCompare(p) ==
    /\ pc[p] = "change_find"
    /\ IF loc[p].userId \notin DOMAIN users
       THEN Reply(p, ErrorResponse("changePassword", Rq(p), 400, "Invalid current password"))
       ELSE /\ pc' = [pc EXCEPT ![p] = "change_write"]
            /\ loc' = [loc EXCEPT ![p].password = loc[p].data.newPassword,
                                  ![p].seen = users[loc[p].userId].password]
            /\ UNCHANGED resp
    /\ UNCHANGED <<users, tokens, now, sessions, outbox, nreq, consumed, barred>>

\* AuthRepository.changePassword: findById and comparePassword; false (no
\* row, or another password) makes AuthService.changePassword throw
\* AppError('Invalid current password', 400).
ChangePasswordFind(p) ==
    /\ pc[p] = "change_find"
    /\ IF loc[p].userId \notin DOMAIN users
       THEN Reply(p, ErrorResponse("changePassword", Rq(p), 400, "Invalid current password"))
       ELSE IF ~comparePassword(loc[p].data.currentPassword, users[loc[p].userId].password)
       THEN Reply(p, ErrorResponse("changePassword", Rq(p), 400, "Invalid current password"))
       ELSE /\ pc' = [pc EXCEPT ![p] = "change_write"]
            /\ loc' = [loc EXCEPT ![p].password = loc[p].data.newPassword,
                                  ![p].seen = users[loc[p].userId].password]
            /\ UNCHANGED resp
    /\ UNCHANGED <<users, tokens, now, sessions, outbox, nreq, consumed, barred>>

\* The change that signs the account's sessions out.
ChangePasswordWrite_RevokesSessions(p) ==
    /\ pc[p] = "change_write"
    /\ users' = changePassword(users, loc[p].userId, hashPassword(loc[p].password))
    /\ sessions' = {h \in sessions : h.userId # loc[p].userId}
    /\ Reply(p, SuccessResponse("changePassword", Rq(p), 200, "Password changed successfully"))
    /\ UNCHANGED <<tokens, now, outbox, nreq, consumed, barred>>

\* hashPassword and UserRepository.changePassword (false for a row that is
\* gone); changePasswordHandler answers 200.
ChangePasswordWrite(p) ==
    /\ pc[p] = "change_write"
    /\ IF loc[p].userId \in DOMAIN users
       THEN /\ users' = changePassword(users, loc[p].userId, hashPassword(loc[p].password))
            /\ Reply(p, SuccessResponse("changePassword", Rq(p), 200,
                                        "Password changed successfully"))
       ELSE /\ Reply(p, ErrorResponse("changePassword", Rq(p), 400,
                                      "Invalid current password"))
            /\ UNCHANGED users
    /\ UNCHANGED <<tokens, now, sessions, outbox, nreq, consumed, barred>>

\* ----------------------------------------- specification: change password
\* Bodies of PUT /api/auth/change-password.
ChangePasswordBodies ==
    [currentPassword : Passwords, newPassword : {"pw2"} \cup WeakPasswords]

\* The user changes the password, logs in and reads the profile, while an
\* admin may suspend the account.
InitPassword ==
    /\ InitCommon
    /\ tokens = << >>
    /\ sessions = {generateToken(id, SeedUsers[id].email, SeedUsers[id].role) :
                      id \in {"u1", "a1"}}

NextPassword ==
    \/ \E p \in Procs, h \in sessions, body \in ChangePasswordBodies :
          h.userId = "u1" /\ ChangePasswordStart(p, h, body)
    \/ \E p \in Procs, pw \in Passwords : LoginFind(p, Email("u1", FALSE, FALSE), pw)
    \/ \E p \in Procs, h \in sessions :
          \/ h.userId = "u1" /\ StartRequest(p, h, "getMe", NULL, NULL)
          \/ h.userId = "a1" /\ StartRequest(p, h, "suspend", "u1", "policy violation")
    \/ \E p \in Procs :
          \/ ChangePasswordFind(p)
          \/ ChangePasswordWrite(p)
          \/ LoginStamp(p)
          \/ LoginReread(p)
          \/ MeRead(p)
          \/ SuspendRead(p)
          \/ SuspendWrite(p)

SpecPassword == InitPassword /\ [][NextPassword]_vars

\* -------------------------------------------------- profile via /api/auth
\* PUT /api/auth/profile: authenticate (findById), then
\* updateProfileController's UpdateProfileSchema.parse.
AuthProfileStart(p, h, body) ==
    /\ Begin(p)
    /\ h \in sessions
    /\ LET rq == [actor |-> h.userId, target |-> h.userId] IN
       IF AuthFailure(h) # "ok"
       THEN Reply(p, AuthRejection("updateProfile", rq, h))
       ELSE IF ProfileInvalid(body)
       THEN Reply(p, ErrorResponse("updateProfile", rq, 400, "Invalid input data"))
       ELSE /\ pc' = [pc EXCEPT ![p] = "profile_write"]
            /\ loc' = [loc EXCEPT ![p] =
                   [IdleLoc EXCEPT !.op = "updateProfile", !.userId = h.userId,
                                   !.actor = h.userId, !.target = h.userId,
                                   !.data = UpdateProfileSchema(body)]]
            /\ resp' = [resp EXCEPT ![p] = Pending(p)]
    /\ UNCHANGED <<users, tokens, now, sessions, outbox, consumed, barred>>

\* updateProfileHandler: AuthRepository.updateProfile is
\* userRepository.update(userId, profileData).
AuthProfileWrite(p) ==
    /\ pc[p] = "profile_write"
    /\ IF loc[p].actor \in DOMAIN users
       THEN /\ users' = update(users, loc[p].actor, loc[p].data)
            /\ Reply(p, SuccessResponse("updateProfile", Rq(p), 200,
                                        "Profile updated successfully"))
       ELSE /\ Reply(p, ErrorResponse("updateProfile", Rq(p), 404, "User not found"))
            /\ UNCHANGED users
    /\ UNCHANGED <<tokens, now, sessions, outbox, nreq, consumed, barred>>

\* ------------------------------------------------ specification: profile
\* Bodies a user sends to PUT /api/users/me and PUT /api/auth/profile: a
\* name, a name with a role and a status, a bio with the columns the user
\* must not touch, and a name that is not one.
ProfileBodies ==
    {[name |-> "Ann"],
     [name |-> "Hacker", role |-> "ADMIN", status |-> "SUSPENDED"],
     [bio |-> "hello", email |-> Email("a1", FALSE, FALSE),
      password |-> hashPassword("pw2"), emailVerified |-> TRUE,
      suspensionReason |-> "spam", suspendedAt |-> 0, suspendedBy |-> "a1"],
     [name |-> "R2D2"]}

InitProfile ==
    /\ InitCommon
    /\ tokens = << >>
    /\ sessions = {generateToken("u1", SeedUsers["u1"].email, SeedUsers["u1"].role)}

NextProfile ==
    \/ \E p \in Procs, h \in sessions, body \in ProfileBodies :
          \/ StartRequest(p, h, "updateMe", NULL, body)
          \/ AuthProfileStart(p, h, body)
    \/ \E p \in Procs :
          \/ MeWrite(p)
          \/ AuthProfileWrite(p)

SpecProfile == InitProfile /\ [][NextProfile]_vars

\* ------------------------------------- specification: verified account
\* u1 has verified the address with the token "tv" at time 0; a1 has not.
\* Both ask for verification mails, during u1's cooldown and after it.
InitVerified ==
    /\ now = 0
    /\ users = updateEmailVerification(SeedUsers, "u1", TRUE)
    /\ tokens = ("tv" :> [TokenRow("u1", "VERIFICATION", 0, VERIFICATION_TOKEN_EXPIRY)
                             EXCEPT !.usedAt = 0])
    /\ pc = [p \in Procs |-> "idle"]
    /\ loc = [p \in Procs |-> IdleLoc]
    /\ resp = [p \in Procs |-> NoResp]
    /\ sessions = {generateToken(id, SeedUsers[id].email, SeedUsers[id].role) :
                      id \in IssueActors}
    /\ outbox = [k \in EMAIL_TYPES \X UserIds |-> 0]
    /\ nreq = 0
    /\ consumed = [t \in RawTokens |-> IF t = "tv" THEN 1 ELSE 0]
    /\ barred = {}

NextVerified ==
    \/ Tick
    \/ \E p \in Procs, h \in sessions : VerifyRequestStart(p, h)
    \/ \E p \in Procs :
          \/ VerifyRequestLoad(p)
          \/ VerifyRequestLimit(p)
          \/ IssueDelete(p)
          \/ IssueCreate(p)

SpecVerified == InitVerified /\ [][NextVerified]_vars

\* --------------------------------- specification: reset while suspended
\* u1 asked for a password reset and was then suspended by a1. The reset
\* link is used and validated and the admin activates the account, one
\* request after the other.
InitSuspended ==
    /\ now = 0
    /\ users = suspendUser(SeedUsers, "u1", "policy violation", "a1")
    /\ tokens = ("tr" :> TokenRow("u1", "PASSWORD_RESET", 0, RESET_TOKEN_EXPIRY))
    /\ pc = [p \in Procs |-> "idle"]
    /\ loc = [p \in Procs |-> IdleLoc]
    /\ resp = [p \in Procs |-> NoResp]
    /\ sessions = {generateToken("a1", SeedUsers["a1"].email, SeedUsers["a1"].role)}
    /\ outbox = [k \in EMAIL_TYPES \X UserIds |->
                    IF k \in {<<"password-reset", "u1">>, <<"account-suspended", "u1">>}
                    THEN 1 ELSE 0]
    /\ nreq = 0
    /\ consumed = [t \in RawTokens |-> 0]
    /\ barred = {"u1"}

NextSuspended ==
    \/ Tick
    \/ \E p \in Procs :
          \/ Alone(p) /\ ValidateFind(p, "tr")
          \/ Alone(p) /\ ConsumeFind(p, "resetPassword", "tr", "pw2")
          \/ \E h \in sessions : Alone(p) /\ StartRequest(p, h, "activate", "u1", NULL)
          \/ Alone(p) /\ ValidateLoad(p)
          \/ Alone(p) /\ ConsumeUpdate(p)
          \/ Alone(p) /\ ResetPasswordLoad(p)
          \/ Alone(p) /\ ResetPasswordWrite(p)
          \/ Alone(p) /\ ActivateRead(p)
          \/ Alone(p) /\ ActivateWrite(p)

SpecSuspended == InitSuspended /\ [][NextSuspended]_vars

\* ------------------------------------ specification: two verification links
\* u1 holds two unused verification tokens (two issue calls that ran
\* together each stored one); the links are opened while the admin a1
\* updates or deletes the account.
InitReverify ==
    /\ users = SeedUsers
    /\ tokens = ("t1" :> TokenRow("u1", "VERIFICATION", 0, VERIFICATION_TOKEN_EXPIRY))
             @@ ("t2" :> TokenRow("u1", "VERIFICATION", 0, VERIFICATION_TOKEN_EXPIRY))
    /\ now = 0
    /\ pc = [p \in Procs |-> "idle"]
    /\ loc = [p \in Procs |-> IdleLoc]
    /\ resp = [p \in Procs |-> NoResp]
    /\ sessions = {generateToken("a1", SeedUsers["a1"].email, SeedUsers["a1"].role)}
    /\ outbox = [k \in EMAIL_TYPES \X UserIds |->
                    IF k = <<"email-verification", "u1">> THEN 2 ELSE 0]
    /\ nreq = 0
    /\ consumed = [t \in TokenInputs |-> 0]
    /\ barred = {}

NextReverify ==
    \/ Tick
    \/ \E p \in Procs, raw \in {"t1", "t2"} : ConsumeFind(p, "verifyEmail", raw, NULL)
    \/ \E p \in Procs, h \in sessions, patch \in AdminPatches :
          StartRequest(p, h, "updateUser", "u1", patch)
    \/ \E p \in Procs, h \in sessions : StartRequest(p, h, "deleteUser", "u1", NULL)
    \/ \E p \in Procs :
          \/ ConsumeUpdate(p)
          \/ VerifyEmailLoad(p)
          \/ VerifyEmailWrite(p)
          \/ UpdateUserWrite(p)
          \/ DeleteWrite(p)

SpecReverify == InitReverify /\ [][NextReverify]_vars

\* ------------------------------------------------------- token properties
ConsumingOps == {"verifyEmail", "resetPassword"}

\* A stored token with this raw string and purpose that is unused and
\* unexpired.
Consumable(raw, type) ==
    /\ raw \in DOMAIN tokens
    /\ tokens[raw].type = type
    /\ tokens[raw].usedAt = NoTime
    /\ now < tokens[raw].expiresAt

\* C1: of the concurrent verifyAndConsumeToken calls made with one unused,
\* unexpired token, exactly one returns isValid=true: no token is ever
\* consumed successfully by two calls.
C1_ExactlyOneConsumer == \A t \in RawTokens : consumed[t] <= 1

\* The step in which handler p runs the findFirst of verifyAndConsumeToken
\* for the request (op, raw), and whether the call goes on to mark the row.
C2_FindStep(p) ==
    /\ pc[p] = "idle"
    /\ nreq' # nreq
    /\ (pc'[p] = "consume_update"
          \/ (Answered(p) /\ resp'[p].op \in {"verifyEmail", "resetPassword"}))
C2_Accepted(p) == pc'[p] = "consume_update"

C2_Step ==
    \A p \in Procs :
       /\ C2_FindStep(p) /\ C2_Accepted(p) =>
             Consumable(loc'[p].token, PurposeOf(loc'[p].op))
       /\ C2_FindStep(p) /\ ~C2_Accepted(p) =>
             /\ ~Consumable(resp'[p].req, PurposeOf(resp'[p].op))
             /\ [resp'[p] EXCEPT !.n = 0] =
                    ErrorResponse(resp'[p].op, resp'[p].req, 400,
                                  InvalidTokenMessage(resp'[p].op))
             /\ users' = users /\ tokens' = tokens
       /\ pc[p] = "consume_update" /\ pc'[p] \in {"verify_load", "reset_load"} =>
             tokens'[loc[p].token].usedAt # NoTime

\* C2: verifyAndConsumeToken returns isValid=true iff a stored token with
\* that raw string and purpose is unused and unexpired, and a successful call
\* sets usedAt; so when requests run one after the other a token is consumed
\* at most once, a consumed or expired token is rejected with the handler's
\* "Invalid or expired ... token" answer, and the rejection changes nothing.
C2_ValidIffUnusedUnexpired ==
    /\ [][C2_Step]_vars
    /\ [](\A t \in RawTokens : consumed[t] <= 1)
    /\ [](\A t \in DOMAIN tokens : consumed[t] = 1 <=> tokens[t].usedAt # NoTime)

\* A verification token that was consumed once and then presented again.
C2_Witness ==
    \E p \in Procs :
       /\ consumed["tv"] = 1
       /\ tokens["tv"].usedAt # NoTime
       /\ resp[p].op = "verifyEmail"
       /\ resp[p].req = "tv"
       /\ resp[p].status = 400
       /\ resp[p].message = "Invalid or expired verification token"
       /\ users["u1"].emailVerified

\* --------------------------------------------------- lifecycle properties
HasSuspensionData(row) ==
    /\ row.suspensionReason # NULL
    /\ row.suspendedAt # NoTime
    /\ row.suspendedBy # NULL

\* C3: in every reachable state every account has status SUSPENDED if and
\* only if suspensionReason, suspendedAt and suspendedBy are all non-null.
C3_SuspendedIffMetadata ==
    \A id \in DOMAIN users :
        users[id].status = "SUSPENDED" <=> HasSuspensionData(users[id])

\* A step that answers a suspend request which authenticate and
\* requireAdmin let through.
SuspendAnswered(p) ==
    /\ Answered(p)
    /\ resp'[p].op = "suspend"
    /\ resp'[p].message \notin {"Invalid or expired token", "Insufficient permissions"}

\* The role of the target as the request read it: by the handler's
\* findById once that has run, by the step itself otherwise.
RoleRead(p) ==
    IF pc[p] = "suspend_write" THEN loc[p].seen ELSE users[resp'[p].req.target].role

\* C4 as stated: a suspend whose target has role ADMIN or SUPER_ADMIN is
\* always answered Forbidden 'Cannot suspend admin users', changes no
\* account and sends no notification.
C4_StatedStep ==
    \A p \in Procs :
        SuspendAnswered(p) /\ users[resp'[p].req.target].role \in ADMIN_ROLES
            => /\ resp'[p].status = 403
               /\ resp'[p].message = "Cannot suspend admin users"
               /\ users' = users
               /\ outbox' = outbox

AdminTargetAnswer(actor, target, status) ==
    IF actor = target THEN ErrorResponse("suspend", NULL, 400, "Cannot suspend your own account")
    ELSE IF status = "SUSPENDED" THEN ErrorResponse("suspend", NULL, 400, "User is already suspended")
    ELSE IF status = "DELETED" THEN ErrorResponse("suspend", NULL, 400, "Cannot suspend deleted user")
    ELSE ErrorResponse("suspend", NULL, 403, "Cannot suspend admin users")

\* C4 (amended): a suspend request that reads its target with role ADMIN or
\* SUPER_ADMIN never succeeds, changes no account and sends no notification;
\* it is answered 400 'Cannot suspend your own account' when the acting
\* admin is the target, 400 'User is already suspended' / 'Cannot suspend
\* deleted user' when the target is read SUSPENDED / DELETED, and 403
\* 'Cannot suspend admin users' otherwise.
C4_AmendedStep ==
    \A p \in Procs :
        SuspendAnswered(p) /\ RoleRead(p) \in ADMIN_ROLES
            => LET rq == resp'[p].req
                   want == AdminTargetAnswer(rq.actor, rq.target, users[rq.target].status)
               IN
               /\ pc[p] # "suspend_write"
               /\ resp'[p].status = want.status
               /\ resp'[p].message = want.message
               /\ resp'[p].error = want.error
               /\ users' = users
               /\ outbox' = outbox

Admitted(p) == pc[p] = "idle" /\ pc'[p] # "idle" /\ loc'[p].actor # NULL

\* C5: once a suspend or softDelete of an account has completed, and until
\* an activate of it completes, no request carrying a session token of that
\* account passes authenticate.
C5_Step == \A p \in Procs : Admitted(p) => loc'[p].actor \notin barred

C5_BarredUntilActivate == [][C5_Step]_vars

\* C9: every rejection by authenticate has the same body: status 401 and
\* both message and error equal to 'Invalid or expired token'.
C9_UniformRejection ==
    \A p \in Procs :
        resp[p].status = 401 /\ resp[p].message = "Invalid or expired token"
            => resp[p].error = "Invalid or expired token"

\* The awaits of the handlers behind requireAdmin.
AdminPcs ==
    {"admin_read", "update_write", "delete_write", "suspend_read", "suspend_write",
     "activate_read", "activate_write"}

\* A handler behind router.use(authenticate) runs for an authenticated
\* account, one behind requireAdmin for a role that requireAdmin allows.
C10_Gate ==
    \A p \in Procs :
        /\ pc[p] \in AdminPcs \cup {"me_read", "me_write"} => loc[p].actor \in DOMAIN users
        /\ pc[p] \in AdminPcs => loc[p].actorRole \in ADMIN_ROLES

\* A request to an admin route by an ACTIVE account whose stored role is
\* not allowed is answered 403 'Insufficient permissions' and starts no
\* handler; a handler is started with the role stored at that moment.
C10_Start ==
    \A p \in Procs :
        /\ ( /\ pc[p] = "idle" /\ Answered(p)
             /\ resp'[p].op \in AdminRoutes
             /\ users[resp'[p].req.actor].status = "ACTIVE"
             /\ users[resp'[p].req.actor].role \notin ADMIN_ROLES )
           => /\ resp'[p].status = 403
              /\ resp'[p].message = "Insufficient permissions"
              /\ users' = users
        /\ Admitted(p) => loc'[p].actorRole = users[loc'[p].actor].role

\* A step of a request made with role USER writes no account but its own.
C10_Own ==
    \A p \in Procs :
        pc[p] # "idle" /\ pc'[p] # pc[p] /\ loc[p].actorRole = "USER"
            => \A id \in UserIds \ {loc[p].actor} : users'[id] = users[id]

\* C10: the role check decides on authenticated requests only; a role that
\* is not allowed gets Forbidden 'Insufficient permissions' before any
\* handler runs; no request made with role USER lists, reads, updates,
\* deletes, suspends or activates another account.
C10_RoleCheck == []C10_Gate /\ [][C10_Start /\ C10_Own]_vars

\* The user was refused on an admin route while an admin's handler runs.
C10_Witness ==
    \E p, q \in Procs :
        /\ resp[p].op \in AdminRoutes
        /\ resp[p].status = 403
        /\ resp[p].message = "Insufficient permissions"
        /\ pc[q] \in AdminPcs

\* ------------------------------------------------------- login properties
\* A step that starts a login, and the credentials it was called with.
LoginStart(p) ==
    /\ pc[p] = "idle"
    /\ (pc'[p] = "login_stamp" \/ (Answered(p) /\ resp'[p].op = "login"))

LoginInput(p) == IF pc'[p] = "login_stamp" THEN loc'[p].data ELSE resp'[p].req

\* The account registered under the address of a login, or NULL.
LoginAccount(p) == findByEmail(normalizeEmail(LoginInput(p).email))

CorrectPassword(p) ==
    /\ LoginAccount(p) # NULL
    /\ comparePassword(LoginInput(p).password, users[LoginAccount(p)].password)

\* C6: login with the correct password is rejected with 403 'Account is
\* suspended' for a SUSPENDED account and with 404 'Account not found' for
\* a DELETED one.
C6_Step ==
    \A p \in Procs :
        LoginStart(p) /\ CorrectPassword(p) =>
            LET st == users[LoginAccount(p)].status IN
            /\ st = "SUSPENDED" =>
                  /\ pc'[p] = "idle"
                  /\ resp'[p].status = 403
                  /\ resp'[p].message = "Account is suspended"
            /\ st = "DELETED" =>
                  /\ pc'[p] = "idle"
                  /\ resp'[p].status = 404
                  /\ resp'[p].message = "Account not found"

C6_RejectsByStatus == [][C6_Step]_vars

\* C7: a login with an unregistered address and a login with a registered
\* address and a wrong password get the same answer (401, message and error
\* 'Invalid credentials', no token) and change nothing.
C7_Step ==
    \A p \in Procs :
        LoginStart(p) /\ ~CorrectPassword(p) =>
            /\ pc'[p] = "idle"
            /\ resp'[p].status = 401
            /\ resp'[p].message = "Invalid credentials"
            /\ resp'[p].error = "Invalid credentials"
            /\ resp'[p].token.kind = "absent"
            /\ users' = users
            /\ sessions' = sessions

C7_UniformFailure == [][C7_Step]_vars

\* Both failures have been answered: one request named an unregistered
\* address, the other u1's address with a wrong password.
C7_Witness ==
    \E p, q \in Procs :
        /\ resp[p].op = "login" /\ resp[q].op = "login"
        /\ resp[p].status = 401 /\ resp[q].status = 401
        /\ findByEmail(normalizeEmail(resp[p].req.email)) = NULL
        /\ findByEmail(normalizeEmail(resp[q].req.email)) = "u1"
        /\ ~comparePassword(resp[q].req.password, users["u1"].password)

\* C8: login signs a session token only after reading status ACTIVE twice:
\* at the lookup of authenticate and at the re-check before signing.
C8_Step ==
    /\ \A p \in Procs :
          /\ pc[p] = "idle" /\ pc'[p] = "login_stamp"
                => users[loc'[p].userId].status = "ACTIVE"
          /\ Answered(p) /\ resp'[p].token.kind = "valid"
                => /\ pc[p] = "login_reread"
                   /\ loc[p].seen = "ACTIVE"
                   /\ users[loc[p].userId].status = "ACTIVE"
    /\ sessions' # sessions
          => \E p \in Procs : pc[p] = "login_reread" /\ resp'[p].token.kind = "valid"

C8_TokenOnlyIfActiveTwice == [][C8_Step]_vars

\* A login returned a token while a suspend of the same account stood
\* between its read and its write.
C8_Witness ==
    \E p, q \in Procs :
        /\ resp[p].op = "login"
        /\ resp[p].token.kind = "valid"
        /\ pc[q] = "suspend_write"
        /\ loc[q].target = resp[p].token.userId

\* ------------------------------------------------------ register properties
\* The step is the insert of a register call whose address is stored by no
\* account.
RegisterInsert(p) ==
    /\ pc[p] = "register_create"
    /\ Answered(p)
    /\ ~emailExists(normalizeEmail(loc[p].data.email))

C11_Step ==
    \A p \in Procs :
        RegisterInsert(p) =>
            LET r == resp'[p]
                id == r.user.id
            IN
            /\ r.status = 201
            /\ id \notin DOMAIN users
            /\ DOMAIN users' = DOMAIN users \cup {id}
            /\ \A o \in DOMAIN users : users'[o] = users[o]
            /\ users'[id].email = normalizeEmail(loc[p].data.email)
            /\ users'[id].role = "USER"
            /\ users'[id].status = "ACTIVE"
            /\ users'[id].emailVerified = FALSE
            /\ users'[id].suspensionReason = NULL
            /\ users'[id].suspendedAt = NoTime
            /\ users'[id].suspendedBy = NULL
            /\ r.token.kind = "valid"
            /\ r.token.userId = id
            /\ r.token \in sessions'
            /\ "password" \notin DOMAIN r.user

\* C11: a register call whose address no account uses when the row is
\* inserted creates exactly one account, with role USER, status ACTIVE,
\* emailVerified false and the three suspension columns null whatever keys
\* the body carries, and answers with a session token of that account and a
\* view of it that has no password digest.
C11_RegisterCreatesPlainUser == [][C11_Step]_vars

\* A register call whose body asked for role ADMIN was answered 201 for an
\* account stored with role USER.
C11_Witness ==
    \E p \in Procs :
        /\ resp[p].op = "register"
        /\ resp[p].status = 201
        /\ "role" \in DOMAIN resp[p].req
        /\ resp[p].user.id \in DOMAIN users
        /\ users[resp[p].user.id].role = "USER"

\* The accounts whose stored address equals e up to letter case and
\* surrounding blanks.
SameEmail(e) ==
    {id \in DOMAIN users : normalizeEmail(users[id].email) = normalizeEmail(e)}

\* The step starts a register call of p with this body.
RegisterCall(p, body) ==
    /\ pc[p] = "idle"
    /\ \/ pc'[p] = "register_create" /\ loc'[p].data = body
       \/ Answered(p) /\ resp'[p].op = "register" /\ resp'[p].req = body

C12_UniqueEmails ==
    \A i, j \in DOMAIN users :
        i # j => normalizeEmail(users[i].email) # normalizeEmail(users[j].email)

C12_Step ==
    \A p \in Procs, body \in RegisterBodies :
        (/\ RegisterCall(p, body)
         /\ ~body.email.pad
         /\ SameEmail(body.email) # {})
        => /\ Answered(p)
           /\ resp'[p].status = 409
           /\ resp'[p].message = "Email is already registered"
           /\ resp'[p].error = "Email is already registered"
           /\ users' = users

\* C12: no two accounts ever have the same normalized email, whatever
\* their status, and a register call whose address equals, up to letter
\* case, the address of an existing account (a DELETED one included) is
\* answered 409 'Email is already registered' and creates no account.
C12_EmailReserved == []C12_UniqueEmails /\ [][C12_Step]_vars

\* u1 is DELETED and a register call giving u1's address in capitals was
\* answered 409.
C12_Witness ==
    \E p \in Procs :
        /\ users["u1"].status = "DELETED"
        /\ resp[p].op = "register"
        /\ resp[p].status = 409
        /\ resp[p].req.email = Email("u1", TRUE, FALSE)

\* --------------------------------------------------- token issue properties
\* A stored token of the account and purpose was created within the
\* cooldown.
RecentToken(id, type) ==
    \E t \in DOMAIN tokens :
        /\ tokens[t].userId = id
        /\ tokens[t].type = type
        /\ tokens[t].createdAt > now - RESEND_VERIFICATION_COOLDOWN

\* No token of the account and purpose was created within the cooldown:
\* none is stored, and no issue call has deleted one that it is about to
\* replace.
NoRecentToken(id, type) ==
    /\ ~RecentToken(id, type)
    /\ \A q \in Procs :
          ~(pc[q] = "issue_create" /\ loc[q].userId = id /\ loc[q].type = type)

\* The step answers a requestPasswordReset of p that gave a well-formed
\* address.
ResetRequestAnswered(p) ==
    /\ Answered(p)
    /\ resp'[p].op = "requestPasswordReset"
    /\ ~resp'[p].req.email.pad

GenericResetAnswer(r) ==
    /\ r.status = 200
    /\ r.message = GenericResetMessage
    /\ r.error = NULL

C13_Step ==
    \A p \in Procs :
        ResetRequestAnswered(p) =>
            LET e == resp'[p].req.email
                ids == SameEmail(e)
                inactive == \E id \in ids : users[id].status # "ACTIVE"
                unlimited == \E id \in ids : /\ users[id].status = "ACTIVE"
                                             /\ NoRecentToken(id, "PASSWORD_RESET")
            IN
            /\ (ids = {} \/ inactive \/ unlimited) => GenericResetAnswer(resp'[p])
            /\ (ids = {} \/ inactive) => tokens' = tokens /\ outbox' = outbox
            /\ (tokens' # tokens \/ outbox' # outbox) =>
                  \E id \in ids : users[id].status = "ACTIVE"

\* C13: requestPasswordReset answers with the one generic success message
\* for an unregistered address, for an account that is not ACTIVE and for
\* an ACTIVE account with no PASSWORD_RESET token created within the
\* cooldown; only in the last case is a PASSWORD_RESET token created and a
\* PASSWORD_RESET notification sent.
C13_SameResponse == [][C13_Step]_vars

C14_Step ==
    \A p \in Procs :
        (pc[p] = "resetreq_limit" /\ pc'[p] # "resetreq_limit") =>
            LET id == loc[p].userId IN
            /\ RecentToken(id, "PASSWORD_RESET") =>
                  Answered(p) /\ resp'[p].status = 429
            /\ NoRecentToken(id, "PASSWORD_RESET") =>
                  ~Answered(p) /\ pc'[p] = "issue_delete"

\* C14: the rate limit of requestPasswordReset looks at the account's
\* PASSWORD_RESET tokens only: for an ACTIVE account the request is
\* answered 429 if and only if a PASSWORD_RESET token of that account was
\* created within the cooldown, whatever VERIFICATION tokens it has.
C14_ResetLimitByPurpose == [][C14_Step]_vars

C15_Step ==
    \A p \in Procs :
        (pc[p] = "vreq_limit" /\ pc'[p] # "vreq_limit") =>
            LET id == loc[p].userId
                rejected == Answered(p) /\ resp'[p].status = 429
            IN
            /\ RecentToken(id, "VERIFICATION") => rejected
            /\ NoRecentToken(id, "VERIFICATION") => ~rejected /\ pc'[p] = "issue_delete"
            /\ rejected =>
                  /\ resp'[p].message =
                        "Too many verification emails sent. Please wait before requesting another."
                  /\ tokens' = tokens
                  /\ outbox' = outbox
                  /\ users' = users
                  /\ \E t \in DOMAIN tokens' :
                        /\ tokens'[t].userId = id
                        /\ tokens'[t].type = "VERIFICATION"
                        /\ tokens'[t].createdAt > now - RESEND_VERIFICATION_COOLDOWN
                        /\ tokens'[t] = tokens[t]

C16_OneLiveTokenPerPurpose ==
    \A t1, t2 \in DOMAIN tokens :
        (/\ t1 # t2
         /\ tokens[t1].userId = tokens[t2].userId
         /\ tokens[t1].type = tokens[t2].type)
        => ~(Consumable(t1, tokens[t1].type) /\ Consumable(t2, tokens[t2].type))

\* The operations a caller presents a token to.
TokenOps == {"verifyEmail", "resetPassword", "validateResetToken"}

\* The step starts a call of p that presents this token to this operation.
TokenCall(p, op, raw) ==
    /\ pc[p] = "idle"
    /\ \/ /\ pc'[p] \in {"consume_update", "validate_load"}
          /\ loc'[p].op = op
          /\ loc'[p].token = raw
       \/ /\ Answered(p)
          /\ resp'[p].op = op
          /\ resp'[p].req = raw

C17_Step ==
    \A p \in Procs, op \in TokenOps, raw \in DOMAIN tokens :
        (TokenCall(p, op, raw) /\ tokens[raw].type # PurposeOf(op))
        => /\ Answered(p)
           /\ resp'[p].status = 400
           /\ resp'[p].message = InvalidTokenMessage(op)
           /\ users' = users
           /\ tokens' = tokens
           /\ consumed' = consumed
           /\ outbox' = outbox

\* C17: a token is never valid for the other purpose: verifyEmail given a
\* PASSWORD_RESET token, and validateResetToken and confirmPasswordReset
\* given a VERIFICATION token, are answered 400, change no account and
\* leave the token as it is, unconsumed and usable for its own purpose.
C17_NoCrossPurposeUse == [][C17_Step]_vars

\* verifyEmail was refused a PASSWORD_RESET token, which is still
\* consumable by confirmPasswordReset.
C17_Witness ==
    \E p \in Procs :
        /\ resp[p].op = "verifyEmail"
        /\ resp[p].status = 400
        /\ resp[p].req \in DOMAIN tokens
        /\ Consumable(resp[p].req, "PASSWORD_RESET")

\* The step answers the validateResetToken call of p from its second await.
ValidateAnswered(p) == pc[p] = "validate_load" /\ Answered(p)

C18_Step ==
    \A p \in Procs :
        /\ \A raw \in RawTokens :
              TokenCall(p, "validateResetToken", raw) =>
                  /\ (pc'[p] = "validate_load") <=> Consumable(raw, "PASSWORD_RESET")
                  /\ Answered(p) => resp'[p].status = 400
                  /\ UNCHANGED <<users, tokens, consumed, outbox, sessions>>
        /\ ValidateAnswered(p) =>
              LET id == loc[p].userId IN
              /\ resp'[p].status \in {200, 400}
              /\ (resp'[p].status = 200) <=>
                    (id \in DOMAIN users /\ users[id].status = "ACTIVE")
              /\ UNCHANGED <<users, tokens, consumed, outbox, sessions>>

\* C18: validateResetToken goes past its token lookup if and only if the
\* token is stored with purpose PASSWORD_RESET, unused and unexpired, and
\* then succeeds if and only if the owner exists and is ACTIVE; it never
\* changes a token or an account, so a confirmPasswordReset after any
\* number of validate calls finds the token as it was.
C18_ValidateIsReadOnly == [][C18_Step]_vars

\* A validate call for u1's reset token succeeded and a later
\* confirmPasswordReset with the same token succeeded too.
C18_Witness ==
    \E p, q \in Procs :
        /\ resp[p].op = "validateResetToken"
        /\ resp[p].status = 200
        /\ resp[p].req = "tr"
        /\ resp[q].op = "resetPassword"
        /\ resp[q].status = 200
        /\ resp[q].req = "tr"

\* ---------------------------------------------------- suspension properties
\* The step is one of the suspend call (of the activate call) that p serves.
SuspendStep(p) == pc[p] \in {"suspend_read", "suspend_write"} /\ pc'[p] # pc[p]
ActivateStep(p) == pc[p] \in {"activate_read", "activate_write"} /\ pc'[p] # pc[p]

\* The step answers p with a failure.
Failed(p) == Answered(p) /\ resp'[p].status >= 400

C19_Step ==
    \A p \in Procs :
        SuspendStep(p) =>
            LET id == loc[p].target IN
            /\ (pc[p] = "suspend_read" /\ ~Answered(p)) =>
                  /\ id \in DOMAIN users
                  /\ users[id].status = "ACTIVE"
                  /\ users[id].role = "USER"
            /\ (pc[p] = "suspend_read" /\ id \notin DOMAIN users) =>
                  Failed(p) /\ resp'[p].status = 404 /\ resp'[p].message = "User not found"
            /\ (pc[p] = "suspend_read" /\ id \in DOMAIN users) =>
                  /\ users[id].status = "SUSPENDED" =>
                        Failed(p) /\ resp'[p].message = "User is already suspended"
                  /\ users[id].status = "DELETED" =>
                        Failed(p) /\ resp'[p].message = "Cannot suspend deleted user"
            /\ pc[p] = "suspend_write" =>
                  /\ Answered(p)
                  /\ resp'[p].status = 200
                  /\ users'[id].status = "SUSPENDED"
                  /\ users'[id].suspensionReason = loc[p].data
                  /\ users'[id].suspendedBy = loc[p].actor
                  /\ \A o \in DOMAIN users \ {id} : users'[o] = users[o]
            /\ Failed(p) => users' = users /\ outbox' = outbox

\* C19: a suspend call goes on to its write only when it read an existing
\* target with status ACTIVE and role USER, and the write sets status
\* SUSPENDED, suspensionReason to the given reason and suspendedBy to the
\* acting admin; a missing target is answered 'User not found', a target
\* read SUSPENDED 'User is already suspended', a target read DELETED
\* 'Cannot suspend deleted user', and every failing suspend leaves the
\* accounts and the outbox as they are.
C19_SuspendPreconditions == [][C19_Step]_vars

\* s1 suspended u1 for spam, and a suspend of the id that names no account
\* was answered 'User not found'.
C19_Witness ==
    /\ users["u1"].status = "SUSPENDED"
    /\ users["u1"].suspensionReason = "spam"
    /\ users["u1"].suspendedBy = "s1"
    /\ \E p \in Procs :
          /\ resp[p].op = "suspend"
          /\ resp[p].status = 404
          /\ resp[p].message = "User not found"

C20_Step ==
    \A p \in Procs :
        ActivateStep(p) =>
            LET id == loc[p].target IN
            /\ (pc[p] = "activate_read" /\ ~Answered(p)) =>
                  id \in DOMAIN users /\ users[id].status = "SUSPENDED"
            /\ (pc[p] = "activate_read" /\ id \in DOMAIN users
                    /\ users[id].status \in {"ACTIVE", "DELETED"}) =>
                  /\ Failed(p)
                  /\ resp'[p].status = 400
                  /\ resp'[p].message = "User is not suspended"
            /\ pc[p] = "activate_write" =>
                  /\ Answered(p)
                  /\ resp'[p].status = 200
                  /\ users'[id].status = "ACTIVE"
                  /\ users'[id].suspensionReason = NULL
                  /\ users'[id].suspendedAt = NoTime
                  /\ users'[id].suspendedBy = NULL
                  /\ \A o \in DOMAIN users \ {id} : users'[o] = users[o]
            /\ Failed(p) => users' = users /\ outbox' = outbox

\* C20: an activate call goes on to its write only when it read a target
\* with status SUSPENDED, and the write sets status ACTIVE and the three
\* suspension columns to null; a target read ACTIVE or DELETED is answered
\* 400 'User is not suspended', and the failing call changes no account
\* and sends no ACCOUNT_ACTIVATED notification.
C20_ActivatePreconditions == [][C20_Step]_vars

\* u1 has been suspended and activated again, its suspension columns are
\* null, and a further activate was answered 'User is not suspended'.
C20_Witness ==
    /\ users["u1"].status = "ACTIVE"
    /\ users["u1"].suspendedBy = NULL
    /\ outbox[<<"account-activated", "u1">>] = 1
    /\ \E p \in Procs :
          /\ resp[p].op = "activate"
          /\ resp[p].status = 400
          /\ resp[p].message = "User is not suspended"

\* The row of an account that is not suspended: ACTIVE, with the three
\* suspension columns null.
Unsuspended(row) ==
    [row EXCEPT !.status = "ACTIVE", !.suspensionReason = NULL,
                !.suspendedAt = NoTime, !.suspendedBy = NULL]

C21_Step ==
    \A p \in Procs :
        LET id == loc[p].target IN
        /\ (pc[p] = "activate_write" /\ Answered(p)) =>
              /\ users'[id] = Unsuspended(users[id])
              /\ resp'[p].status = 200
        /\ (pc[p] = "suspend_write" /\ Answered(p)) =>
              /\ users'[id] = [Unsuspended(users[id]) EXCEPT
                                  !.status = "SUSPENDED",
                                  !.suspensionReason = loc[p].data,
                                  !.suspendedAt = now,
                                  !.suspendedBy = loc[p].actor]
              /\ resp'[p].status = 200
        /\ (/\ pc[p] = "suspend_read"
            /\ pc'[p] # "suspend_read"
            /\ id \in DOMAIN users
            /\ users[id] = Unsuspended(users[id])
            /\ users[id].role = "USER")
           => pc'[p] = "suspend_write" /\ ~Answered(p)

\* C21: an activate returns the suspended account to status ACTIVE with
\* the three suspension columns null and every other column as it was; an
\* ACTIVE USER account with null suspension columns is admitted to suspend
\* again, however often it has been suspended and activated before, and a
\* suspend leaves in the suspension columns the reason and the acting
\* admin of that suspend only.
C21_SuspendActivateCycle == [][C21_Step]_vars

\* u1 was suspended, activated and suspended again, and carries the reason
\* and the admin of the second suspend.
C21_Witness ==
    /\ outbox[<<"account-activated", "u1">>] = 1
    /\ outbox[<<"account-suspended", "u1">>] = 2
    /\ users["u1"].status = "SUSPENDED"
    /\ users["u1"].suspensionReason = "spam"
    /\ users["u1"].suspendedBy = "s1"
    /\ \A p \in Procs : pc[p] = "idle"

\* The step of p in which a suspend, an activate or a password reset made
\* its write and handed its notification to the dispatcher.
NotifyingWrite(p) ==
    /\ pc[p] \in {"suspend_write", "activate_write", "reset_write"}
    /\ pc'[p] # pc[p]

C22_Step ==
    \A p \in Procs :
        (NotifyingWrite(p) /\ outbox' = outbox) =>
            /\ Answered(p)
            /\ resp'[p].status = 200
            /\ pc[p] = "suspend_write" =>
                  /\ users'[loc[p].target].status = "SUSPENDED"
                  /\ users'[loc[p].target].suspensionReason = loc[p].data
                  /\ users'[loc[p].target].suspendedBy = loc[p].actor
            /\ pc[p] = "activate_write" =>
                  users'[loc[p].target] = Unsuspended(users[loc[p].target])
            /\ pc[p] = "reset_write" =>
                  users'[loc[p].userId].password = hashPassword(loc[p].password)

\* C22: when the dispatcher does not send the notification of a suspend,
\* an activate or a password reset (it returns false or throws, so the
\* outbox stays as it is), the operation still answers 200 and its write to
\* the account stays.
C22_NotificationFailureTolerated == [][C22_Step]_vars

\* An activate (hence a suspend before it) and a password reset answered
\* 200 and left their writes although no notification was ever sent.
C22_Witness ==
    /\ \A k \in DOMAIN outbox : outbox[k] = 0
    /\ \E p, q \in Procs :
          /\ resp[p].op = "activate" /\ resp[p].status = 200
          /\ resp[q].op = "resetPassword" /\ resp[q].status = 200
    /\ users["u1"].password = hashPassword("pw2")
    /\ users["u1"].status = "ACTIVE"

C23_Step ==
    \A p \in Procs :
        (/\ pc[p] = "issue_create"
         /\ loc[p].type = "VERIFICATION"
         /\ Answered(p)
         /\ outbox' = outbox)
        => /\ resp'[p].status >= 400
           /\ resp'[p].message # "Verification email sent successfully"

\* C23: a request for a verification mail whose notification the dispatcher
\* did not send (the outbox stays as it is) is answered with a failure and
\* never with 'Verification email sent successfully'.
C23_VerificationFailureReported == [][C23_Step]_vars

C24_Step ==
    \A id \in DOMAIN users :
        users[id].status = "DELETED" =>
            /\ id \in DOMAIN users'
            /\ users'[id].status = "DELETED"

\* C24: an account whose status is DELETED keeps that status in every
\* step of every operation, whatever the interleaving of the requests.
C24_DeletedIsTerminal == [][C24_Step]_vars

\* p answers, in this step, a suspend or a delete whose target is the
\* account that asks, sent by an account the gate admits as an admin.
OwnAccountAnswered(p) ==
    /\ Answered(p)
    /\ resp'[p].op \in {"suspend", "deleteUser"}
    /\ resp'[p].req.actor = resp'[p].req.target
    /\ resp'[p].req.actor \in DOMAIN users
    /\ users[resp'[p].req.actor].status = "ACTIVE"
    /\ users[resp'[p].req.actor].role \in ADMIN_ROLES

C25_StatedStep ==
    \A p \in Procs :
        OwnAccountAnswered(p) =>
            /\ resp'[p].status = 403
            /\ users' = users

C25_AmendedStep ==
    \A p \in Procs :
        OwnAccountAnswered(p) =>
            /\ pc[p] = "idle"
            /\ resp'[p].status = 400
            /\ resp'[p].message = SelfGuard(resp'[p].op, resp'[p].req.actor,
                                            resp'[p].req.target)
            /\ resp'[p].message # NULL
            /\ users' = users
            /\ outbox' = outbox

C26_Step ==
    \A p \in Procs :
        /\ (/\ pc[p] = "change_find" /\ pc'[p] # pc[p]
            /\ loc[p].userId \in DOMAIN users) =>
              LET id == loc[p].userId
                  body == loc[p].data
              IN
              IF comparePassword(body.currentPassword, users[id].password)
              THEN pc'[p] = "change_write" /\ ~Answered(p) /\ users' = users
              ELSE /\ Answered(p)
                   /\ resp'[p].status = 400
                   /\ resp'[p].message = "Invalid current password"
                   /\ users' = users
        /\ (pc[p] = "change_write" /\ pc'[p] # pc[p]) =>
              LET id == loc[p].userId
                  body == loc[p].data
              IN
              /\ comparePassword(body.currentPassword, loc[p].seen)
              /\ Answered(p) /\ resp'[p].status = 200
              /\ users' = [users EXCEPT ![id].password = hashPassword(body.newPassword)]
              /\ \A pw \in Passwords :
                    comparePassword(pw, users'[id].password) <=> pw = body.newPassword
        /\ (/\ pc[p] = "idle"
            /\ Answered(p)
            /\ resp'[p].op = "login"
            /\ users["u1"].status = "ACTIVE")
           => (resp'[p].status = 401
                  <=> ~comparePassword(resp'[p].req.password, users["u1"].password))

\* C26: a changePassword whose currentPassword does not match the digest
\* it read is answered 400 'Invalid current password' and writes nothing;
\* one whose currentPassword matches replaces the digest by that of
\* newPassword and is answered 200, after which the digest accepts the new
\* password and no other, and a login of the ACTIVE account is refused 401
\* exactly when its password does not match the stored digest.
C26_ChangePassword == [][C26_Step]_vars

\* After a change from pw1 to pw2, a login with pw1 was refused and a login
\* with pw2 got its session token.
C26_Witness ==
    /\ users["u1"].password = hashPassword("pw2")
    /\ \E p, q \in Procs :
          /\ resp[p].op = "login" /\ resp[p].status = 401
          /\ resp[p].req.password = "pw1"
          /\ resp[q].op = "login" /\ resp[q].status = 200
          /\ resp[q].req.password = "pw2"

\* authenticate accepts the session token h: it verifies and its account
\* is stored with status ACTIVE.
Accepted(h) == AuthFailure(h) = "ok"

C27_Step ==
    \A p \in Procs :
        (pc[p] = "change_write" /\ pc'[p] # pc[p]) =>
            /\ sessions' = sessions
            /\ \A h \in sessions : Accepted(h) => Accepted(h)'

\* C27: a changePassword revokes no session token: every token issued
\* before it that authenticate accepted is accepted after it, and at any
\* time authenticate accepts every issued token whose account is ACTIVE,
\* whatever has happened to the password.
C27_SessionsSurviveChange ==
    /\ [][C27_Step]_vars
    /\ [](\A h \in sessions :
             (h.userId \in DOMAIN users /\ users[h.userId].status = "ACTIVE")
                 => Accepted(h))

\* The client p1 changed u1's password and then, with the session token
\* issued before the change, read the profile.
C27_Witness ==
    /\ users["u1"].password = hashPassword("pw2")
    /\ resp["p1"].op = "getMe" /\ resp["p1"].status = 200
    /\ resp["p1"].n = 2
    /\ resp["p2"].n = 0 /\ pc["p2"] = "idle"

\* p makes, in this step, the write of a profile update of the own account.
ProfileWriteStep(p) ==
    /\ pc[p] \in {"me_write", "profile_write"}
    /\ pc'[p] # pc[p]

C28_Step ==
    \A p \in Procs :
        ProfileWriteStep(p) =>
            LET id == loc[p].actor IN
            /\ \A other \in DOMAIN users \ {id} : users'[other] = users[other]
            /\ DOMAIN users' = DOMAIN users
            /\ \A f \in DOMAIN users[id] \ {"name", "bio"} :
                  users'[id][f] = users[id][f]
            /\ resp'[p].status = 200

\* C28: a profile update of the own account, by PUT /api/users/me or by
\* PUT /api/auth/profile, writes the columns name and bio of that account
\* and nothing else: what reaches the handler holds no other key, so a
\* role, status, email, password or suspension field in the body changes
\* nothing, and the request is still answered 200.
C28_ProfileWritesNameAndBioOnly ==
    /\ [][C28_Step]_vars
    /\ [](\A p \in Procs :
             pc[p] \in {"me_write", "profile_write"}
                 => DOMAIN loc[p].data \subseteq {"name", "bio"})

\* Both bodies with forbidden keys were accepted: u1 is named Hacker and
\* has the bio, and is still an ACTIVE USER with the password, the address
\* and the empty suspension columns of before.
C28_Witness ==
    /\ users["u1"] = [SeedUsers["u1"] EXCEPT !.name = "Hacker", !.bio = "hello"]
    /\ \E p \in Procs : resp[p].op = "updateMe" /\ resp[p].status = 200
    /\ \E p \in Procs : resp[p].op = "updateProfile" /\ resp[p].status = 200

AlreadyVerified == "Email is already verified"

C29_Step ==
    \A p \in Procs :
        (/\ pc[p] = "vreq_load" /\ pc'[p] # pc[p]
         /\ loc[p].userId \in DOMAIN users
         /\ users[loc[p].userId].emailVerified)
        => /\ Answered(p)
           /\ resp'[p].status = 200
           /\ resp'[p].message = AlreadyVerified
           /\ tokens' = tokens
           /\ outbox' = outbox
           /\ users' = users

\* C29: a request for a verification mail by an account that is read with
\* emailVerified set is answered 200 'Email is already verified' at once:
\* it creates and deletes no token, sends no notification and changes no
\* account, at any time and whatever tokens the account has.
C29_VerifiedRequestIsNoOp == [][C29_Step]_vars

\* After three requests and the end of the cooldown of u1's token, the
\* last answer to each client is 'Email is already verified' for u1, and
\* the token table and the outbox are as they were at the start.
C29_Witness ==
    /\ nreq = 3
    /\ now = MaxTime
    /\ \A p \in Procs :
          /\ resp[p].op = "requestEmailVerification"
          /\ resp[p].req.actor = "u1"
          /\ resp[p].message = AlreadyVerified
    /\ DOMAIN tokens = {"tv"}
    /\ \A k \in DOMAIN outbox : outbox[k] = 0

\* The clients whose last answer is the success of a password reset made
\* with the token raw.
ResetWinners(raw) ==
    {p \in Procs : /\ resp[p].op = "resetPassword"
                   /\ resp[p].req = raw
                   /\ resp[p].status = 200}

\* C30: of the concurrent password resets made with one PASSWORD_RESET
\* token, at most one changes the password and is answered with success.
C30_OneResetPerToken == \A raw \in RawTokens : Cardinality(ResetWinners(raw)) <= 1

C31_Step ==
    \A p \in Procs :
        (/\ pc[p] = "suspend_write"
         /\ Answered(p)
         /\ resp'[p].status = 200)
        => users[loc[p].target].status # "SUSPENDED"

\* C31: of two concurrent suspend calls for an ACTIVE USER account only
\* one succeeds: no suspend is answered with success for an account that
\* another suspend has suspended meanwhile, so the reason and the admin of
\* the first success stay and one ACCOUNT_SUSPENDED notification is sent.
C31_OneSuspendWins == [][C31_Step]_vars

C32_Step ==
    \A p \in Procs :
        (Answered(p) /\ resp'[p].op = "register" /\ resp'[p].status >= 400)
        => /\ resp'[p].status \in {400, 409}
           /\ resp'[p].status = 409 => resp'[p].message = "Email is already registered"

\* C32: of two concurrent register calls whose addresses normalize to the
\* same value, the one that creates no account is rejected with 409
\* 'Email is already registered': a register call never fails with
\* anything but the 400 of the schema or that 409.
C32_RegisterRaceIsConflict == [][C32_Step]_vars

C33_Step ==
    \A p \in Procs, e \in ResetEmails :
        (/\ pc[p] = "idle"
         /\ pc'[p] # "idle" \/ Answered(p)
         /\ resp'[p].op = "requestPasswordReset" \/ loc'[p].op = "requestPasswordReset"
         /\ (IF Answered(p) THEN resp'[p].req ELSE loc'[p].data) = [email |-> e]
         /\ ~e.pad
         /\ findByEmail(normalizeEmail(e)) # NULL
         /\ users[findByEmail(normalizeEmail(e))].status = "ACTIVE")
        => /\ ~Answered(p)
           /\ pc'[p] = "resetreq_limit"
           /\ loc'[p].userId = findByEmail(normalizeEmail(e))

\* C33: a password reset request giving the address of a registered ACTIVE
\* account in any letter case goes on, for that account, to the rate limit
\* and the creation of the PASSWORD_RESET token, as the request giving the
\* stored lower-case form does.
C33_ResetLookupNormalizes == [][C33_Step]_vars

C34_Step ==
    \A p \in Procs :
        (/\ Answered(p)
         /\ resp'[p].op = "validateResetToken"
         /\ resp'[p].status # 200)
        => /\ resp'[p].status = 400
           /\ resp'[p].message = "Invalid or expired reset token"
           /\ resp'[p].error = "Invalid or expired reset token"

\* C34: every failing validateResetToken, whether the token or the owning
\* account is the cause, is answered 400 with the one message 'Invalid or
\* expired reset token'.
C34_UniformValidateFailure == [][C34_Step]_vars

C35_Step ==
    \A p \in Procs :
        /\ (/\ pc[p] = "reset_load" /\ pc'[p] # pc[p]
            /\ loc[p].userId \in DOMAIN users
            /\ users[loc[p].userId].status # "ACTIVE")
           => /\ Answered(p)
              /\ resp'[p].status = 403
              /\ resp'[p].message = "Account is not active"
              /\ users' = users
              /\ tokens[loc[p].token].usedAt # NoTime
        /\ \A raw \in DOMAIN tokens :
              tokens[raw].usedAt # NoTime =>
                  /\ raw \in DOMAIN tokens'
                  /\ tokens'[raw].usedAt = tokens[raw].usedAt
                  /\ \A op \in {"validateResetToken", "resetPassword"} :
                        TokenCall(p, op, raw) =>
                            /\ Answered(p)
                            /\ resp'[p].status = 400
                            /\ resp'[p].message = "Invalid or expired reset token"
                            /\ users' = users

\* C35: when requests follow one another, a confirmPasswordReset that finds
\* its token valid and its account not ACTIVE is answered 403 'Account is
\* not active' and leaves the password as it is, with the token already
\* marked used; a used token stays used, and every later
\* validateResetToken and confirmPasswordReset with it, also after the
\* account is activated again, is answered 400 'Invalid or expired reset
\* token' and changes no account.
C35_TokenBurntByInactiveAccount == [][C35_Step]_vars

\* The reset link was refused with 403 while u1 was suspended; u1 was then
\* activated, and the same, still unexpired link was refused with 400; the
\* password is the old one.
C35_Witness ==
    /\ resp["p1"].op = "resetPassword" /\ resp["p1"].status = 403
    /\ resp["p2"].op = "resetPassword" /\ resp["p2"].status = 400
    /\ resp["p2"].req = "tr"
    /\ users["u1"].status = "ACTIVE"
    /\ users["u1"].password = hashPassword("pw1")
    /\ tokens["tr"].usedAt # NoTime
    /\ now < tokens["tr"].expiresAt

\* C36: in every reachable state no account has a role of ADMIN_ROLES
\* together with the status SUSPENDED.
C36_NoSuspendedAdmin ==
    \A id \in DOMAIN users :
        ~(users[id].role \in ADMIN_ROLES /\ users[id].status = "SUSPENDED")

\* p's handler takes a step of a request made with a session token.
ActorStep(p) ==
    /\ pc[p] # "idle"
    /\ pc'[p] # pc[p]
    /\ loc[p].actor \in DOMAIN users

C37_Step ==
    \A p \in Procs :
        ActorStep(p) =>
            LET role == users[loc[p].actor].role IN
            /\ role = "ADMIN" =>
                  \A id \in DOMAIN users' :
                      users'[id].role = "SUPER_ADMIN"
                          => id \in DOMAIN users /\ users[id].role = "SUPER_ADMIN"
            /\ role = "USER" =>
                  \A id \in DOMAIN users' :
                      id \in DOMAIN users /\ users'[id].role = users[id].role

\* C37: no step of a request whose actor now has the role ADMIN gives an
\* account the role SUPER_ADMIN, and no step of a request whose actor now
\* has the role USER changes the role of an account.
C37_NoRoleEscalation == [][C37_Step]_vars

\* ------------------------------------------------ stored role, not the claim
\* The role claim carried by the session token issued to an account.
TokenRole(id) == (CHOOSE h \in sessions : h.kind = "valid" /\ h.userId = id).role

C38_Step ==
    \A p \in Procs :
        /\ ( /\ pc[p] = "idle" /\ Answered(p)
             /\ resp'[p].op \in AdminRoutes
             /\ resp'[p].req.actor \in DOMAIN users
             /\ users[resp'[p].req.actor].status = "ACTIVE" )
           => LET refused == /\ resp'[p].status = 403
                             /\ resp'[p].message = "Insufficient permissions"
              IN refused <=> users[resp'[p].req.actor].role \notin ADMIN_ROLES
        /\ ( Admitted(p) /\ loc'[p].op \in AdminRoutes )
           => users[loc'[p].actor].role \in ADMIN_ROLES

\* C38: the admin role check decides on the role stored for the account
\* when the request arrives, not on the role claim of the session token: a
\* request with a token of an ACTIVE account whose stored role is USER is
\* answered 403 'Insufficient permissions' on every admin route, whatever
\* the claim, and a request of an account whose stored role is ADMIN or
\* SUPER_ADMIN is never refused by that check and is the only kind admitted.
C38_StoredRoleDecides == [][C38_Step]_vars

\* Both directions have happened with tokens issued before the change: the
\* user, promoted, had an update admitted with a token claiming USER, and
\* the admin, demoted, was refused with a token claiming ADMIN.
C38_Witness ==
    \E p, q \in Procs :
        /\ resp[p].n > 0 /\ resp[p].op \in AdminRoutes
        /\ resp[p].req.actor = "a1"
        /\ resp[p].status = 403 /\ resp[p].message = "Insufficient permissions"
        /\ users["a1"].role = "USER" /\ TokenRole("a1") = "ADMIN"
        /\ resp[q].n > 0 /\ resp[q].op = "updateUser" /\ resp[q].status = 200
        /\ resp[q].req.actor = "u1"
        /\ TokenRole("u1") = "USER"

\* ----------------------------------------------- the verification flag
C39_Inv ==
    \A id \in DOMAIN users :
        users[id].emailVerified <=> users[id].emailVerifiedAt # NoTime

C39_Step ==
    /\ \A id \in DOMAIN users :
          /\ users[id].emailVerified
                => id \in DOMAIN users' /\ users'[id].emailVerified
          /\ ( id \in DOMAIN users'
               /\ users'[id].emailVerifiedAt # users[id].emailVerifiedAt )
                => \E p \in Procs :
                      /\ pc[p] = "verify_write" /\ Answered(p)
                      /\ loc[p].userId = id
    /\ \A p \in Procs :
          ( /\ pc[p] = "verify_load" /\ pc'[p] # pc[p]
            /\ loc[p].userId \in DOMAIN users
            /\ users[loc[p].userId].emailVerified )
          => /\ Answered(p)
             /\ resp'[p].status = 200
             /\ resp'[p].message = "Email is already verified"
             /\ users' = users

\* A verifyEmail that arrives once the account is verified never gets to
\* the write of emailVerifiedAt.
C39_Later ==
    \A p \in Procs :
        []( (pc[p] = "idle" /\ users["u1"].emailVerified)
                => [](pc[p] # "verify_write") )

\* C39: in every state emailVerified is true exactly when emailVerifiedAt
\* is set; once true, emailVerified is never set back to false by any
\* step; emailVerifiedAt is written by the write of a verifyEmail only, and
\* a verifyEmail that arrives after the account was verified, with another
\* valid token of it, is answered 200 and leaves emailVerifiedAt as it was.
C39_VerifiedIsMonotone == []C39_Inv /\ [][C39_Step]_vars /\ C39_Later

\* The second link was opened later than the first: its token was consumed
\* after the verification time, the answer was a success and
\* emailVerifiedAt is still the time of the first verification.
C39_Witness ==
    \E p \in Procs :
        /\ users["u1"].emailVerified /\ users["u1"].emailVerifiedAt = 0
        /\ tokens["t1"].usedAt = 0
        /\ tokens["t2"].usedAt > 0
        /\ resp[p].n > 0 /\ resp[p].op = "verifyEmail" /\ resp[p].req = "t2"
        /\ resp[p].status = 200 /\ resp[p].message = "Email is already verified"

====
